---- MODULE Spec2Model ----
(***************************************************************************)
(* Dual-store data layer of the hooka client (db object, local storage     *)
(* wrapper, bounded remote caller) together with the quota actions of the  *)
(* serverless backend and the Stripe webhook that sets the premium flag.   *)
(*                                                                         *)
(* Every db operation is one action: its local-storage part, the single    *)
(* remote call it awaits (with every outcome the network and the backend   *)
(* can produce) and its continuation.                                      *)
(***************************************************************************)
EXTENDS Integers, Sequences, FiniteSets

\* ------------------------------------------------------------------------
\* Bounds and program constants
\* ------------------------------------------------------------------------

\* Counters (local and remote) are capped in the guards of the incrementing
\* actions.
MaxCount == 10

\* part_001:6 and api.ts:55
FREE_GENERATION_LIMIT == 10

\* Identities that may log in on this client; NoUser is the absent
\* (undefined) userId argument, which JavaScript treats as falsy.
Users == {"user-a"}
NoUser == ""

\* ------------------------------------------------------------------------
\* Strings, numbers and JSON values
\* ------------------------------------------------------------------------

\* A string is a sequence of one-character strings.
Digits == <<"0", "1", "2", "3", "4", "5", "6", "7", "8", "9">>

IsDigit(c) == \E d \in 1..10 : Digits[d] = c

DigitVal(c) == (CHOOSE d \in 1..10 : Digits[d] = c) - 1

IsSpace(c) == c = " "

\* Number.prototype.toString() of an integer
RECURSIVE NatToString(_)
NatToString(n) ==
  IF n < 10 THEN <<Digits[n + 1]>>
  ELSE Append(NatToString(n \div 10), Digits[(n % 10) + 1])

ToString(n) == IF n < 0 THEN <<"-">> \o NatToString(0 - n) ELSE NatToString(n)

\* parseInt(s, 10): skips leading white space, reads an optional sign and the
\* longest prefix of decimal digits; NaN when there is no digit.
RECURSIVE SkipSpace(_)
SkipSpace(s) == IF s # <<>> /\ IsSpace(Head(s)) THEN SkipSpace(Tail(s)) ELSE s

RECURSIVE DigitPrefix(_)
DigitPrefix(s) ==
  IF s # <<>> /\ IsDigit(Head(s)) THEN <<Head(s)>> \o DigitPrefix(Tail(s)) ELSE <<>>

RECURSIVE DigitsValue(_)
DigitsValue(ds) ==
  IF ds = <<>> THEN 0
  ELSE 10 * DigitsValue(SubSeq(ds, 1, Len(ds) - 1)) + DigitVal(ds[Len(ds)])

ParseInt(str) ==
  LET s == SkipSpace(str)
      neg == s # <<>> /\ Head(s) = "-"
      signed == s # <<>> /\ Head(s) \in {"-", "+"}
      ds == DigitPrefix(IF signed THEN Tail(s) ELSE s)
  IN IF ds = <<>> THEN [nan |-> TRUE, val |-> 0]
     ELSE [nan |-> FALSE, val |-> IF neg THEN 0 - DigitsValue(ds) ELSE DigitsValue(ds)]

\* JSON values the protocol carries: null, objects and arrays.
JNull == [t |-> "null"]
JObj(r) == [t |-> "object", v |-> r]
JArr(s) == [t |-> "array", v |-> s]
JBool(b) == [t |-> "boolean", v |-> b]
JUndefined == [t |-> "undefined"]

\* JavaScript truthiness of such a value
Truthy(x) == x.t \in {"object", "array"} \/ (x.t = "boolean" /\ x.v)

Max(a, b) == IF a >= b THEN a ELSE b

\* ------------------------------------------------------------------------
\* State
\* ------------------------------------------------------------------------

VARIABLES
  localStorage,   \* the browser's key-value store: present keys -> strings
  storageFault,   \* "none", "write" (setItem throws) or "all" (storage disabled)
  env,            \* backend configuration: GEMINI_API_KEY / NETLIFY_DATABASE_URL /
                  \* Stripe keys present or not
  quotas,         \* table hypeakz_quotas: user_id -> row
  lastOp,         \* the operation that ran last, with what it sent and returned
  anonRun,        \* number of anonymous incrementQuota calls made so far while
                  \* nothing else has written the quota key (-1 once broken)
  apiCall,        \* one callApi invocation followed step by step: its position,
                  \* its timer, its request and what it resolved to
  db,             \* tables hypeakz_users, hypeakz_history, hypeakz_profiles
  pending,        \* the save operation that has written locally and awaits its
                  \* remote call, if any
  identity,       \* the Netlify Identity widget: the user signed in, if any, and
                  \* the profile ids handed out so far
  inflight,       \* the quota operations of the client that wait for their
                  \* remote call, each with what it read before it waited
  tablesInit,     \* the backend process: tablesInitPromise, the initializations
                  \* started and how each ended, the callers each one served
  requests        \* the sync-quota requests the backend is handling that have run
                  \* their SELECT and not yet their INSERT or UPDATE

vars ==
  <<localStorage, storageFault, env, quotas, lastOp, anonRun, apiCall, db, pending, identity,
    inflight, tablesInit, requests>>

\* The state outside the data layer
processVars == <<identity, inflight, tablesInit, requests>>

\* What the quota machine leaves alone
entityVars == <<apiCall, db, pending, processVars>>

\* ------------------------------------------------------------------------
\* Local Durable Store (part_001:9-33, 244-254)
\* ------------------------------------------------------------------------

LS_KEYS ==
  [USER |-> "hypeakz_db_user_backup", HISTORY |-> "hypeakz_db_history_backup",
   PROFILES |-> "hypeakz_db_profiles_backup", QUOTA |-> "hypeakz_generations_used"]

\* A value that may be null: <<>> is null, <<x>> is x.
Nothing == <<>>
Some(x) == <<x>>

StorageFaults == {"none", "write", "all"}

\* storage.get: localStorage.getItem, null when it throws
StorageGet(ls, fault, key) ==
  IF fault = "all" THEN Nothing
  ELSE IF key \in DOMAIN ls THEN Some(ls[key]) ELSE Nothing

\* Mutant: a write that fails drops the key
StorageSet_DropsKeyOnError(ls, fault, key, value) ==
  IF fault \in {"write", "all"} THEN [k \in (DOMAIN ls) \ {key} |-> ls[k]]
  ELSE [k \in (DOMAIN ls) \cup {key} |-> IF k = key THEN value ELSE ls[k]]

\* storage.set: localStorage.setItem, a no-op when it throws
StorageSet(ls, fault, key, value) ==
  IF fault \in {"write", "all"} THEN ls
  ELSE [k \in (DOMAIN ls) \cup {key} |-> IF k = key THEN value ELSE ls[k]]

\* Mutant: the whole string has to be a number (Number(stored), not parseInt)
getLocalQuotaCount_WholeString(ls, fault) ==
  LET stored == StorageGet(ls, fault, LS_KEYS.QUOTA)
  IN IF stored = Nothing \/ stored[1] = <<>> THEN 0
     ELSE LET parsed == ParseInt(stored[1])
          IN IF parsed.nan \/ ToString(parsed.val) # stored[1] THEN 0 ELSE parsed.val

\* db.getLocalQuotaCount
getLocalQuotaCount(ls, fault) ==
  LET stored == StorageGet(ls, fault, LS_KEYS.QUOTA)
  IN IF stored = Nothing \/ stored[1] = <<>> THEN 0
     ELSE LET parsed == ParseInt(stored[1])
          IN IF parsed.nan THEN 0 ELSE parsed.val

\* Mutant: the stored string is not parsed, so + 1 appends the character "1"
incrementLocalQuotaCount_Concat(ls, fault) ==
  LET stored == StorageGet(ls, fault, LS_KEYS.QUOTA)
  IN StorageSet(ls, fault, LS_KEYS.QUOTA,
                IF stored = Nothing THEN <<"1">> ELSE stored[1] \o <<"1">>)

incrementLocalQuotaCount(ls, fault) ==
  LET current == getLocalQuotaCount(ls, fault)
  IN StorageSet(ls, fault, LS_KEYS.QUOTA, ToString(current + 1))

\* ------------------------------------------------------------------------
\* Backend: quota actions of the API handler (api.ts:125-596)
\* ------------------------------------------------------------------------

\* A response body is text: either the JSON text of a value or other text.
JsonStringify(v) == [json |-> TRUE, value |-> v]
PlainText(s) == [json |-> FALSE, value |-> s]

QuotaJson(used, premium) ==
  JObj([usedGenerations |-> used, limit |-> FREE_GENERATION_LIMIT, isPremium |-> premium])

SuccessJson == JObj([success |-> TRUE])
ErrorJson(msg) == JObj([error |-> msg])

\* SQL statements on hypeakz_quotas
HasRow(q, userId) == userId \in DOMAIN q

InsertRow(q, userId, row) == [k \in (DOMAIN q) \cup {userId} |-> IF k = userId THEN row ELSE q[k]]

NewRow(used, premium, subscriptionId) ==
  [used_generations |-> used, is_premium |-> premium, stripe_subscription_id |-> subscriptionId]

\* The outcome of one case of the handler's switch: it threw (a SQL statement
\* failed), or it left `result` and the table.
Done(result, q) == [threw |-> FALSE, result |-> result, quotas |-> q]
Threw(q) == [threw |-> TRUE, result |-> JNull, quotas |-> q]

\* case 'get-quota'
GetQuotaCase(payload, sql, q, dbFail) ==
  IF ~sql THEN Done(QuotaJson(0, FALSE), q)
  ELSE IF payload.userId = "" THEN Done(QuotaJson(0, FALSE), q)
  ELSE IF dbFail THEN Threw(q)
  ELSE IF ~HasRow(q, payload.userId) THEN Done(QuotaJson(0, FALSE), q)
  ELSE Done(QuotaJson(q[payload.userId].used_generations,
                      q[payload.userId].is_premium = TRUE), q)

\* case 'increment-quota'
IncrementQuotaCase(payload, sql, q, dbFail) ==
  IF ~sql THEN Done(SuccessJson, q)
  ELSE IF payload.userId = "" THEN Done(SuccessJson, q)
  ELSE IF dbFail THEN Threw(q)
  ELSE IF ~HasRow(q, payload.userId)
       THEN Done(SuccessJson, InsertRow(q, payload.userId, NewRow(1, FALSE, "")))
       ELSE Done(SuccessJson,
                 [q EXCEPT ![payload.userId].used_generations = @ + 1])

\* Mutant: the two counts are added
SyncQuotaCase_Sum(payload, sql, q, dbFail) ==
  IF ~sql THEN Done(SuccessJson, q)
  ELSE IF payload.userId = "" \/ payload.localCount \notin Int THEN Done(SuccessJson, q)
  ELSE IF dbFail THEN Threw(q)
  ELSE IF ~HasRow(q, payload.userId)
       THEN Done(QuotaJson(payload.localCount, FALSE),
                 InsertRow(q, payload.userId, NewRow(payload.localCount, FALSE, "")))
       ELSE LET finalCount == q[payload.userId].used_generations + payload.localCount
            IN Done(QuotaJson(finalCount, q[payload.userId].is_premium = TRUE),
                    [q EXCEPT ![payload.userId].used_generations = finalCount])

\* Mutant: the local count overwrites the stored count
SyncQuotaCase_Overwrite(payload, sql, q, dbFail) ==
  IF ~sql THEN Done(SuccessJson, q)
  ELSE IF payload.userId = "" \/ payload.localCount \notin Int THEN Done(SuccessJson, q)
  ELSE IF dbFail THEN Threw(q)
  ELSE IF ~HasRow(q, payload.userId)
       THEN Done(QuotaJson(payload.localCount, FALSE),
                 InsertRow(q, payload.userId, NewRow(payload.localCount, FALSE, "")))
       ELSE Done(QuotaJson(payload.localCount, q[payload.userId].is_premium = TRUE),
                 [q EXCEPT ![payload.userId].used_generations = payload.localCount])

\* case 'sync-quota'
SyncQuotaCase(payload, sql, q, dbFail) ==
  IF ~sql THEN Done(SuccessJson, q)
  ELSE IF payload.userId = "" \/ payload.localCount \notin Int THEN Done(SuccessJson, q)
  ELSE IF dbFail THEN Threw(q)
  ELSE IF ~HasRow(q, payload.userId)
       THEN Done(QuotaJson(payload.localCount, FALSE),
                 InsertRow(q, payload.userId, NewRow(payload.localCount, FALSE, "")))
       ELSE LET dbCount == q[payload.userId].used_generations
                isPremium == q[payload.userId].is_premium = TRUE
                finalCount == Max(dbCount, payload.localCount)
            IN Done(QuotaJson(finalCount, isPremium),
                    IF finalCount > dbCount
                    THEN [q EXCEPT ![payload.userId].used_generations = finalCount]
                    ELSE q)

QuotaActions == {"get-quota", "increment-quota", "sync-quota"}

\* handler: POST with body {action, payload}
handler(action, payload, cfg, q, dbFail) ==
  IF ~cfg.apiKey /\ ~cfg.sql
  THEN [statusCode |-> 500, body |-> JsonStringify(ErrorJson("Configuration Error")),
        quotas |-> q]
  ELSE IF action \notin QuotaActions
  THEN [statusCode |-> 400, body |-> PlainText("Unknown Action"), quotas |-> q]
  ELSE LET c == CASE action = "get-quota" -> GetQuotaCase(payload, cfg.sql, q, dbFail)
                  [] action = "increment-quota" -> IncrementQuotaCase(payload, cfg.sql, q, dbFail)
                  [] action = "sync-quota" -> SyncQuotaCase(payload, cfg.sql, q, dbFail)
       IN IF c.threw
          THEN [statusCode |-> 500, body |-> JsonStringify(ErrorJson("Server Error")),
                quotas |-> c.quotas]
          ELSE [statusCode |-> 200, body |-> JsonStringify(c.result), quotas |-> c.quotas]

\* ------------------------------------------------------------------------
\* Backend: Stripe webhook (api.ts:614-729)
\* ------------------------------------------------------------------------

StripeEvents == {"checkout.session.completed", "customer.subscription.updated",
                 "customer.subscription.deleted", "invoice.payment_failed"}

SubscriptionIds == {"sub-1"}

\* Mutant: a request is taken as Stripe's when it carries a signature header
WebhookRefusal_SignaturePresent(ev, cfg) ==
  IF ev.httpMethod # "POST" THEN 405
  ELSE IF ~cfg.stripe \/ ~cfg.webhookSecret THEN 500
  ELSE IF ~ev.signed THEN 400
  ELSE 0

\* The status the webhook answers before it looks at the event, 0 when it
\* goes on: the method, the Stripe configuration (STRIPE_SECRET_KEY and
\* STRIPE_WEBHOOK_SECRET), the stripe-signature header, constructEvent
WebhookRefusal(ev, cfg) ==
  IF ev.httpMethod # "POST" THEN 405
  ELSE IF ~cfg.stripe \/ ~cfg.webhookSecret THEN 500
  ELSE IF ~ev.signed THEN 400
  ELSE IF ~ev.valid THEN 400
  ELSE 0

\* Mutant: the row is written anew
ActivatePremium_NewRow(q, userId, subscriptionId) ==
  InsertRow(q, userId, NewRow(0, TRUE, subscriptionId))

\* INSERT ... VALUES (userId, 0, TRUE, ...) ON CONFLICT (user_id) DO UPDATE
\* SET is_premium = TRUE, stripe_customer_id, stripe_subscription_id
ActivatePremium(q, userId, subscriptionId) ==
  IF HasRow(q, userId)
  THEN [q EXCEPT ![userId].is_premium = TRUE,
                 ![userId].stripe_subscription_id = subscriptionId]
  ELSE InsertRow(q, userId, NewRow(0, TRUE, subscriptionId))

\* ev: [httpMethod, signed (stripe-signature present), valid (constructEvent
\* accepts it), type, userId (metadata.userId, "" when missing), subscriptionId,
\* isActive (status is active or trialing)]
webhookHandler(ev, cfg, q, dbFail) ==
  IF WebhookRefusal(ev, cfg) # 0 THEN [statusCode |-> WebhookRefusal(ev, cfg), quotas |-> q]
  ELSE IF ~cfg.sql THEN [statusCode |-> 500, quotas |-> q]
  ELSE CASE ev.type = "checkout.session.completed" ->
              IF ev.userId # "" /\ ev.subscriptionId # ""
              THEN IF dbFail THEN [statusCode |-> 500, quotas |-> q]
                   ELSE [statusCode |-> 200,
                         quotas |-> ActivatePremium(q, ev.userId, ev.subscriptionId)]
              ELSE [statusCode |-> 200, quotas |-> q]
         [] ev.type = "customer.subscription.updated" ->
              IF ev.userId # ""
              THEN IF dbFail THEN [statusCode |-> 500, quotas |-> q]
                   ELSE [statusCode |-> 200,
                         quotas |-> IF HasRow(q, ev.userId)
                                    THEN [q EXCEPT ![ev.userId].is_premium = ev.isActive]
                                    ELSE q]
              ELSE [statusCode |-> 200, quotas |-> q]
         [] ev.type = "customer.subscription.deleted" ->
              IF dbFail THEN [statusCode |-> 500, quotas |-> q]
              ELSE [statusCode |-> 200,
                    quotas |-> [k \in DOMAIN q |->
                                  IF (ev.userId # "" /\ k = ev.userId)
                                     \/ (ev.userId = "" /\ ev.subscriptionId # ""
                                         /\ q[k].stripe_subscription_id = ev.subscriptionId)
                                  THEN [q[k] EXCEPT !.is_premium = FALSE,
                                                    !.stripe_subscription_id = ""]
                                  ELSE q[k]]]
         [] OTHER -> [statusCode |-> 200, quotas |-> q]

\* ------------------------------------------------------------------------
\* Bounded Remote Caller (part_001:39-67)
\* ------------------------------------------------------------------------

\* Content-type header of a response; "" is a response without the header
\* (the handler sets none itself, the platform may add one).
ContentTypes == {"", "application/json", "application/json; charset=utf-8", "text/html"}

\* contentType.indexOf("application/json") !== -1
MentionsJson(ct) == ct \in {"application/json", "application/json; charset=utf-8"}

\* What the network does with one request:
\*   lost        - fetch rejects (transport error, or the timeout aborts it)
\*                 and the backend never saw the request
\*   page        - an intermediary answers with a page of its own
\*   handled     - the backend handles the request and its response arrives
\*   handledLost - the backend handles the request, the response does not
\*                 arrive before the timeout
NetOutcomes ==
  [kind : {"lost"}, status : {0}, contentType : {""}, dbFail : {FALSE}]
  \cup [kind : {"handledLost"}, status : {0}, contentType : {""}, dbFail : BOOLEAN]
  \cup [kind : {"page"}, status : {200}, contentType : ContentTypes \ {"application/json"},
        dbFail : {FALSE}]
  \cup [kind : {"page"}, status : {404}, contentType : {"text/html"}, dbFail : {FALSE}]
  \cup [kind : {"handled"}, status : {0}, contentType : ContentTypes, dbFail : {FALSE}]
  \cup [kind : {"handled"}, status : {0}, contentType : {"application/json"},
        dbFail : {TRUE}]

\* The outcomes an operation draws from: one, unused, when it makes no call
Outcomes(userId) ==
  IF userId = NoUser THEN {CHOOSE n \in NetOutcomes : n.kind = "lost"} ELSE NetOutcomes

\* response.ok
ResponseOk(statusCode) == statusCode >= 200 /\ statusCode <= 299

\* Mutant: the content type is not looked at
HeadersAccepted_StatusOnly(statusCode, contentType) == ResponseOk(statusCode)

\* The two checks between fetch and response.json(): the status is a success
\* status, and the content-type header, when there is one, mentions JSON
HeadersAccepted(statusCode, contentType) ==
  /\ ResponseOk(statusCode)
  /\ ~(contentType # "" /\ ~MentionsJson(contentType))

\* The part of callApi after fetch resolved with a response
ResponseData(statusCode, contentType, body) ==
  IF ~HeadersAccepted(statusCode, contentType) THEN JNull
  ELSE IF ~body.json THEN JNull     \* response.json() throws, caught
  ELSE body.value

\* No response of the backend reached the caller's side of the model
NoResponse == [statusCode |-> 0, body |-> PlainText("")]

\* callApi(action, payload): the data it resolves to, the table afterwards and
\* the request it issued
callApi(action, payload, net, cfg, q) ==
  LET request == [action |-> action, payload |-> payload]
      h == handler(action, payload, cfg, q, net.dbFail)
      reply == [statusCode |-> h.statusCode, body |-> h.body]
  IN CASE net.kind = "lost" ->
            [data |-> JNull, quotas |-> q, requests |-> <<request>>,
             handled |-> FALSE, response |-> NoResponse]
       [] net.kind = "page" ->
            [data |-> ResponseData(net.status, net.contentType, PlainText("<html>")),
             quotas |-> q, requests |-> <<request>>,
             handled |-> FALSE, response |-> NoResponse]
       [] net.kind = "handledLost" ->
            [data |-> JNull, quotas |-> h.quotas, requests |-> <<request>>,
             handled |-> TRUE, response |-> reply]
       [] net.kind = "handled" ->
            [data |-> ResponseData(h.statusCode, net.contentType, h.body),
             quotas |-> h.quotas, requests |-> <<request>>,
             handled |-> TRUE, response |-> reply]

\* No remote call made
NoCall(q) ==
  [data |-> JNull, quotas |-> q, requests |-> <<>>, handled |-> FALSE,
   response |-> NoResponse]

\* One invocation of callApi, step by step (part_001:39-67).  pc is where the
\* invocation stands: "idle" (not started), "fetching" (awaiting fetch),
\* "aborting" (controller.abort() was called, fetch is about to reject),
\* "reading" (awaiting response.json()) or "resolved".  timer is the state of
\* the timeout set at line 41.  path records how the invocation ended.
\* A response names its body by kind; BodyOf is the text of the body.
BodyKinds == {"object", "null", "html"}
BodyOf(kind) ==
  CASE kind = "object" -> JsonStringify(SuccessJson)
    [] kind = "null" -> JsonStringify(JNull)
    [] kind = "html" -> PlainText("<html>")
    [] OTHER -> PlainText("")

NoReply == [status |-> 0, contentType |-> "", kind |-> "none"]

IdleCall ==
  [pc |-> "idle", timer |-> "none", requests |-> <<>>, response |-> NoReply,
   result |-> JUndefined, raised |-> FALSE, path |-> ""]

\* lines 40-49: the controller, the timer and the single fetch
Started(action) ==
  [IdleCall EXCEPT !.pc = "fetching", !.timer = "pending",
                   !.requests = <<[action |-> action]>>]

\* return <data>
Resolved(c, data, path) == [c EXCEPT !.pc = "resolved", !.result = data, !.path = path]

\* Mutant: the catch block rethrows
Caught_Rethrows(c, path) == [c EXCEPT !.pc = "resolved", !.raised = TRUE, !.path = path]

\* lines 62-66: catch (error) { return null; }
Caught(c, path) == Resolved(c, JNull, path)

\* lines 51-59: fetch resolved with a response; the timer is cleared, then
\* the status and the content type are looked at
AfterFetch(c, resp) ==
  LET c1 == [c EXCEPT !.timer = "cleared", !.response = resp]
  IN IF ~ResponseOk(resp.status) THEN Resolved(c1, JNull, "status")
     ELSE IF ~HeadersAccepted(resp.status, resp.contentType)
          THEN Resolved(c1, JNull, "contentType")
          ELSE [c1 EXCEPT !.pc = "reading"]

\* line 61: the body was read to its end and response.json() parses it
AfterBody(c) ==
  IF BodyOf(c.response.kind).json
  THEN Resolved(c, BodyOf(c.response.kind).value, "success")
  ELSE Caught(c, "parse")

\* ------------------------------------------------------------------------
\* Backend: entity actions of the API handler (api.ts:162-204)
\* ------------------------------------------------------------------------

NoRows == [k \in {} |-> 0]

\* The three entity tables, each a function from the primary key id to a row
EmptyDb == [users |-> NoRows, history |-> NoRows, profiles |-> NoRows]

\* No save operation is waiting for its remote call
NoPending == [op |-> "none"]

\* api.ts:185, the LIMIT of the get-history query
HISTORY_QUERY_LIMIT == 20

\* INSERT ... ON CONFLICT (id) DO UPDATE, and DELETE ... WHERE id
Upsert(table, id, row) ==
  [k \in (DOMAIN table) \cup {id} |-> IF k = id THEN row ELSE table[k]]

DeleteRow(table, id) == [k \in (DOMAIN table) \ {id} |-> table[k]]

\* The outcome of one entity case of the handler's switch
Did(result, d) == [threw |-> FALSE, result |-> result, db |-> d]
Failed(d) == [threw |-> TRUE, result |-> JNull, db |-> d]

\* u.phone || null: a missing or empty phone is stored as NULL
PhoneColumn(phone) == IF phone = Nothing \/ phone = Some("") THEN Nothing ELSE phone

\* case 'save-user'
SaveUserCase(payload, sql, d, dbFail) ==
  IF ~sql THEN Did(SuccessJson, d)
  ELSE IF payload.id = "" \/ payload.name = "" THEN Did(SuccessJson, d)
  ELSE IF dbFail THEN Failed(d)
  ELSE Did(SuccessJson,
           [d EXCEPT !.users = Upsert(@, payload.id,
                                      [name |-> payload.name,
                                       phone |-> PhoneColumn(payload.phone)])])

\* case 'get-user'
GetUserCase(payload, sql, d, dbFail) ==
  IF ~sql THEN Did(JNull, d)
  ELSE IF dbFail THEN Failed(d)
  ELSE IF payload.id \notin DOMAIN d.users THEN Did(JNull, d)
  ELSE Did(JObj([id |-> payload.id, name |-> d.users[payload.id].name,
                 phone |-> d.users[payload.id].phone]), d)

\* case 'save-history'
SaveHistoryCase(payload, sql, d, dbFail) ==
  IF ~sql THEN Did(SuccessJson, d)
  ELSE IF dbFail THEN Failed(d)
  ELSE Did(SuccessJson,
           [d EXCEPT !.history = Upsert(@, payload.id, [timestamp |-> payload.timestamp])])

\* The ids of a table in the order of a query: `key` gives each row the rank
\* of its ORDER BY column (ascending); among rows of one rank SQL promises
\* nothing, and `tie`
\* ("asc" or "desc", by id) is the order the database happens to produce.
\* Ids of history items and of brief profiles are numbered.
Ordered(ids, key, tie) ==
  LET Precedes(b, a) ==
        \/ key[b] < key[a]
        \/ /\ key[b] = key[a]
           /\ IF tie = "asc" THEN b < a ELSE b > a
      ByPosition(position) ==
        [i \in 1..Cardinality(ids) |-> CHOOSE a \in ids : position[a] = i]
  IN CHOOSE s \in {ByPosition(p) :
                     p \in {[a \in ids |-> 1 + Cardinality({b \in ids \ {a} : Precedes(b, a)})]}} :
       TRUE

\* LIMIT n
FirstRows(s, n) == SubSeq(s, 1, IF Len(s) < n THEN Len(s) ELSE n)

\* rows.map(...): the items of the history rows with the given ids
HistoryRows(ids, table) ==
  [i \in 1..Len(ids) |-> [id |-> ids[i], timestamp |-> table[ids[i]].timestamp]]

\* case 'get-history': ORDER BY timestamp DESC LIMIT 20
GetHistoryCase(sql, d, dbFail, tie) ==
  IF ~sql THEN Did(JArr(<<>>), d)
  ELSE IF dbFail THEN Failed(d)
  ELSE LET newestFirst == [a \in DOMAIN d.history |-> 0 - d.history[a].timestamp]
       IN CHOOSE r \in {Did(JArr(HistoryRows(FirstRows(ids, HISTORY_QUERY_LIMIT), d.history)), d) :
                          ids \in {Ordered(DOMAIN d.history, newestFirst, tie)}} : TRUE

\* case 'save-profile'
SaveProfileCase(payload, sql, d, dbFail) ==
  IF ~sql THEN Did(SuccessJson, d)
  ELSE IF dbFail THEN Failed(d)
  ELSE Did(SuccessJson,
           [d EXCEPT !.profiles = Upsert(@, payload.id, [name |-> payload.name])])

\* Profile names in the order of the database's collation
ProfileNameOrder == <<"Alpha", "Beta">>
NameRank(name) == CHOOSE i \in 1..Len(ProfileNameOrder) : ProfileNameOrder[i] = name

\* case 'get-profiles': ORDER BY name ASC
GetProfilesCase(sql, d, dbFail, tie) ==
  IF ~sql THEN Did(JArr(<<>>), d)
  ELSE IF dbFail THEN Failed(d)
  ELSE LET byName == [a \in DOMAIN d.profiles |-> NameRank(d.profiles[a].name)]
           ids == Ordered(DOMAIN d.profiles, byName, tie)
       IN Did(JArr([i \in 1..Len(ids) |->
                      [id |-> ids[i], name |-> d.profiles[ids[i]].name]]), d)

\* case 'delete-profile'
DeleteProfileCase(payload, sql, d, dbFail) ==
  IF ~sql THEN Did(SuccessJson, d)
  ELSE IF dbFail THEN Failed(d)
  ELSE Did(SuccessJson, [d EXCEPT !.profiles = DeleteRow(@, payload.id)])

EntityActions == {"save-user", "get-user", "save-history", "get-history",
                  "save-profile", "get-profiles", "delete-profile"}

\* handler, for the entity actions: POST with body {action, payload}
entityHandler(action, payload, cfg, d, dbFail, tie) ==
  IF ~cfg.apiKey /\ ~cfg.sql
  THEN [statusCode |-> 500, body |-> JsonStringify(ErrorJson("Configuration Error")),
        db |-> d]
  ELSE IF action \notin EntityActions
  THEN [statusCode |-> 400, body |-> PlainText("Unknown Action"), db |-> d]
  ELSE LET c == CASE action = "save-user" -> SaveUserCase(payload, cfg.sql, d, dbFail)
                  [] action = "get-user" -> GetUserCase(payload, cfg.sql, d, dbFail)
                  [] action = "save-history" -> SaveHistoryCase(payload, cfg.sql, d, dbFail)
                  [] action = "get-history" -> GetHistoryCase(cfg.sql, d, dbFail, tie)
                  [] action = "save-profile" -> SaveProfileCase(payload, cfg.sql, d, dbFail)
                  [] action = "get-profiles" -> GetProfilesCase(cfg.sql, d, dbFail, tie)
                  [] action = "delete-profile" -> DeleteProfileCase(payload, cfg.sql, d, dbFail)
       IN IF c.threw
          THEN [statusCode |-> 500, body |-> JsonStringify(ErrorJson("Server Error")),
                db |-> c.db]
          ELSE [statusCode |-> 200, body |-> JsonStringify(c.result), db |-> c.db]

\* ------------------------------------------------------------------------
\* Entity repositories: localStore (part_001:71-107) and the user, history
\* and profile operations of db (part_001:120-174)
\* ------------------------------------------------------------------------

\* part_001:5
MAX_LOCAL_HISTORY_ITEMS == 50

\* JSON.parse of a stored text: the value, or a SyntaxError
ParseThrows(text) == ~text.json
Parsed(text) == text.value

\* callApi(action, payload) for an entity action: the data it resolves to,
\* the tables afterwards and the request it issued
callEntityApi(action, payload, net, tie, cfg, d) ==
  LET request == [action |-> action, payload |-> payload]
      h == entityHandler(action, payload, cfg, d, net.dbFail, tie)
  IN CASE net.kind = "lost" ->
            [data |-> JNull, db |-> d, requests |-> <<request>>, handled |-> FALSE]
       [] net.kind = "page" ->
            [data |-> ResponseData(net.status, net.contentType, PlainText("<html>")),
             db |-> d, requests |-> <<request>>, handled |-> FALSE]
       [] net.kind = "handledLost" ->
            [data |-> JNull, db |-> h.db, requests |-> <<request>>, handled |-> TRUE]
       [] net.kind = "handled" ->
            [data |-> ResponseData(h.statusCode, net.contentType, h.body),
             db |-> h.db, requests |-> <<request>>, handled |-> TRUE]

\* localStore.saveUser
localStore_saveUser(ls, fault, user) ==
  StorageSet(ls, fault, LS_KEYS.USER, JsonStringify(user))

\* Mutant: the stored profile is returned whatever its id
localStore_getUser_AnyId(ls, fault, id) ==
  LET data == StorageGet(ls, fault, LS_KEYS.USER)
  IN IF data = Nothing THEN JNull
     ELSE IF ParseThrows(data[1]) THEN JNull
     ELSE LET user == Parsed(data[1])
          IN IF user.t # "object" THEN JNull ELSE user

\* localStore.getUser
localStore_getUser(ls, fault, id) ==
  LET data == StorageGet(ls, fault, LS_KEYS.USER)
  IN IF data = Nothing THEN JNull
     ELSE IF ParseThrows(data[1]) THEN JNull
     ELSE LET user == Parsed(data[1])
          IN IF user.t # "object" THEN JNull     \* null.id: TypeError, caught
             ELSE IF "id" \in DOMAIN user.v /\ user.v.id = id THEN user ELSE JNull

\* localStore.getHistory and localStore.getProfiles
StoredList(ls, fault, key) ==
  LET data == StorageGet(ls, fault, key)
  IN IF data = Nothing THEN JArr(<<>>)
     ELSE IF ParseThrows(data[1]) THEN JArr(<<>>)
     ELSE Parsed(data[1])

localStore_getHistory(ls, fault) == StoredList(ls, fault, LS_KEYS.HISTORY)

localStore_getProfiles(ls, fault) == StoredList(ls, fault, LS_KEYS.PROFILES)

\* current.filter(i => i.id !== id)
WithoutId(s, id) == SelectSeq(s, LAMBDA i : i.id # id)

\* array.slice(0, n)
Slice(s, n) == SubSeq(s, 1, IF Len(s) < n THEN Len(s) ELSE n)

\* Mutant: the list is not cut to its first 50 entries
localStore_saveHistoryItem_Uncut(ls, fault, item) ==
  LET current == localStore_getHistory(ls, fault)
      updated == <<item>> \o WithoutId(current.v, item.id)
  IN StorageSet(ls, fault, LS_KEYS.HISTORY, JsonStringify(JArr(updated)))

\* localStore.saveHistoryItem
localStore_saveHistoryItem(ls, fault, item) ==
  LET current == localStore_getHistory(ls, fault)
      updated == Slice(<<item>> \o WithoutId(current.v, item.id), MAX_LOCAL_HISTORY_ITEMS)
  IN StorageSet(ls, fault, LS_KEYS.HISTORY, JsonStringify(JArr(updated)))

\* Mutant: the profile is put first and the entry of its id is kept
localStore_saveProfile_NoFilter(ls, fault, profile) ==
  LET current == localStore_getProfiles(ls, fault)
  IN StorageSet(ls, fault, LS_KEYS.PROFILES, JsonStringify(JArr(<<profile>> \o current.v)))

\* localStore.saveProfile
localStore_saveProfile(ls, fault, profile) ==
  LET current == localStore_getProfiles(ls, fault)
      updated == <<profile>> \o WithoutId(current.v, profile.id)
  IN StorageSet(ls, fault, LS_KEYS.PROFILES, JsonStringify(JArr(updated)))

\* localStore.deleteProfile
localStore_deleteProfile(ls, fault, id) ==
  LET current == localStore_getProfiles(ls, fault)
      updated == WithoutId(current.v, id)
  IN StorageSet(ls, fault, LS_KEYS.PROFILES, JsonStringify(JArr(updated)))

\* Mutant: an empty remote list counts as a result
NonEmptyArray_AnyArray(x) == x.t = "array"

\* cloudResult && Array.isArray(cloudResult) && cloudResult.length > 0
NonEmptyArray(x) == x.t = "array" /\ Len(x.v) > 0

\* What a read operation returned, the local storage it leaves and its call
Read(value, ls, c) == [value |-> value, localStorage |-> ls, call |-> c]

\* db.getUser
getUser(id, ls, fault, net, cfg, d) ==
  LET cloudResult == callEntityApi("get-user", [id |-> id], net, "asc", cfg, d)
  IN IF Truthy(cloudResult.data)
     THEN Read(cloudResult.data, localStore_saveUser(ls, fault, cloudResult.data),
               cloudResult)
     ELSE Read(localStore_getUser(ls, fault, id), ls, cloudResult)

\* Mutant: the remote list is returned but not mirrored
getHistory_NoMirror(ls, fault, net, tie, cfg, d) ==
  LET cloudResult == callEntityApi("get-history", <<>>, net, tie, cfg, d)
  IN IF NonEmptyArray(cloudResult.data)
     THEN Read(cloudResult.data, ls, cloudResult)
     ELSE Read(localStore_getHistory(ls, fault), ls, cloudResult)

\* db.getHistory
getHistory(ls, fault, net, tie, cfg, d) ==
  LET cloudResult == callEntityApi("get-history", <<>>, net, tie, cfg, d)
  IN IF NonEmptyArray(cloudResult.data)
     THEN Read(cloudResult.data,
               StorageSet(ls, fault, LS_KEYS.HISTORY, JsonStringify(cloudResult.data)),
               cloudResult)
     ELSE Read(localStore_getHistory(ls, fault), ls, cloudResult)

\* db.getProfiles
getProfiles(ls, fault, net, tie, cfg, d) ==
  LET cloudResult == callEntityApi("get-profiles", <<>>, net, tie, cfg, d)
  IN IF NonEmptyArray(cloudResult.data)
     THEN Read(cloudResult.data,
               StorageSet(ls, fault, LS_KEYS.PROFILES, JsonStringify(cloudResult.data)),
               cloudResult)
     ELSE Read(localStore_getProfiles(ls, fault), ls, cloudResult)

\* ------------------------------------------------------------------------
\* Quota Reconciliation Engine (part_001:181-254)
\* ------------------------------------------------------------------------

LocalQuota(localCount) ==
  [usedGenerations |-> localCount, limit |-> FREE_GENERATION_LIMIT, isPremium |-> FALSE]

\* An operation's outcome: what it returned (or that it threw), the local
\* storage and the table it leaves, the requests it issued.
Returned(value, ls, call) ==
  [raised |-> FALSE, value |-> value, localStorage |-> ls, call |-> call]
Raised(ls, call) ==
  [raised |-> TRUE, value |-> JUndefined, localStorage |-> ls, call |-> call]

\* the record canGenerate decides on, when the operation obtained one
NoQuota == LocalQuota(-1)

\* Mutant: the remote record is fetched but the local counter is returned
getQuota_IgnoresRemote(userId, ls, fault, net, cfg, q) ==
  LET call == IF userId # NoUser
              THEN callApi("get-quota", [userId |-> userId], net, cfg, q)
              ELSE NoCall(q)
  IN Returned(JObj(LocalQuota(getLocalQuotaCount(ls, fault))), ls, call)

getQuota(userId, ls, fault, net, cfg, q) ==
  LET call == IF userId # NoUser
              THEN callApi("get-quota", [userId |-> userId], net, cfg, q)
              ELSE NoCall(q)
  IN IF userId # NoUser /\ Truthy(call.data)
     THEN Returned(call.data, ls, call)
     ELSE Returned(JObj(LocalQuota(getLocalQuotaCount(ls, fault))), ls, call)

\* Mutant: premium does not short-circuit the numeric check
quotaAllows_NumericOnly(quota) == quota.usedGenerations < quota.limit

\* Mutant: the limit itself is still allowed
quotaAllows_UpToLimit(quota) ==
  IF quota.isPremium THEN TRUE ELSE quota.usedGenerations <= quota.limit

\* the two lines of canGenerate after the quota was obtained
quotaAllows(quota) ==
  IF quota.isPremium THEN TRUE ELSE quota.usedGenerations < quota.limit

canGenerate(userId, ls, fault, net, cfg, q) ==
  LET got == getQuota(userId, ls, fault, net, cfg, q)
  IN [raised |-> got.raised, value |-> JBool(quotaAllows(got.value.v)),
      localStorage |-> got.localStorage, call |-> got.call, quota |-> got.value.v]

\* Mutant: a storage exception escapes the local increment and the remote
\* request is never issued
incrementQuota_StopsOnStorageFault(userId, ls, fault, net, cfg, q) ==
  LET ls1 == incrementLocalQuotaCount(ls, fault)
      call == IF userId # NoUser /\ fault = "none"
              THEN callApi("increment-quota", [userId |-> userId], net, cfg, q)
              ELSE NoCall(q)
  IN Returned(JUndefined, ls1, call)

incrementQuota(userId, ls, fault, net, cfg, q) ==
  LET ls1 == incrementLocalQuotaCount(ls, fault)
      call == IF userId # NoUser
              THEN callApi("increment-quota", [userId |-> userId], net, cfg, q)
              ELSE NoCall(q)
  IN Returned(JUndefined, ls1, call)

\* Mutant: the fallback reports the local count it sent only when the
\* backend was reached, and 0 otherwise
syncQuotaOnLogin_ZeroFallback(userId, ls, fault, net, cfg, q) ==
  LET localCount == getLocalQuotaCount(ls, fault)
      call == callApi("sync-quota", [userId |-> userId, localCount |-> localCount],
                      net, cfg, q)
  IN IF Truthy(call.data)
     THEN IF "usedGenerations" \notin DOMAIN call.data.v
          THEN Raised(ls, call)
          ELSE Returned(call.data,
                        StorageSet(ls, fault, LS_KEYS.QUOTA,
                                   ToString(call.data.v.usedGenerations)),
                        call)
     ELSE Returned(JObj(LocalQuota(0)), ls, call)

syncQuotaOnLogin(userId, ls, fault, net, cfg, q) ==
  LET localCount == getLocalQuotaCount(ls, fault)
      call == callApi("sync-quota", [userId |-> userId, localCount |-> localCount],
                      net, cfg, q)
  IN IF Truthy(call.data)
     THEN IF "usedGenerations" \notin DOMAIN call.data.v
          THEN Raised(ls, call)     \* undefined.toString(): TypeError
          ELSE Returned(call.data,
                        StorageSet(ls, fault, LS_KEYS.QUOTA,
                                   ToString(call.data.v.usedGenerations)),
                        call)
     ELSE Returned(JObj(LocalQuota(localCount)), ls, call)

\* ------------------------------------------------------------------------
\* Actions
\* ------------------------------------------------------------------------

\* The counter the quota key holds, read without a storage fault
StoredCount == getLocalQuotaCount(localStorage, "none")

RemoteCount(q, userId) == IF HasRow(q, userId) THEN q[userId].used_generations ELSE 0

\* What a repeated syncQuotaOnLogin is compared with: the call for the same
\* identity that ran last before it, when nothing but changes of the storage
\* fault came between the two
NoPrev == [present |-> FALSE, userId |-> NoUser, used |-> -1, localCount |-> -1,
           fromRemote |-> FALSE]

Summary(o) ==
  IF o.op = "storage-fault" THEN o.prev
  ELSE IF o.op # "syncQuotaOnLogin" THEN NoPrev
  ELSE [present |-> TRUE, userId |-> o.userId,
        used |-> IF o.raised THEN -1 ELSE o.value.v.usedGenerations,
        localCount |-> o.call.requests[1].payload.localCount,
        fromRemote |-> ~o.raised /\ Truthy(o.call.data)]

OpRecord(op, userId, out) ==
  [op |-> op, userId |-> userId,
   before |-> [localStorage |-> localStorage, quotas |-> quotas],
   fault |-> storageFault,
   raised |-> out.raised, value |-> out.value, call |-> out.call,
   quota |-> IF "quota" \in DOMAIN out THEN out.quota ELSE NoQuota,
   prev |-> IF op \in {"storage-fault", "syncQuotaOnLogin"}
            THEN LET p == Summary(lastOp)
                 IN IF op = "storage-fault" \/ p.userId = userId THEN p ELSE NoPrev
            ELSE NoPrev]

\* A db operation ran to its end with outcome `out`
Finish(op, userId, out) ==
  /\ localStorage' = out.localStorage
  /\ quotas' = out.call.quotas
  /\ lastOp' = OpRecord(op, userId, out)
  /\ UNCHANGED <<storageFault, env, entityVars>>

GetQuota(userId) ==
  \E net \in Outcomes(userId) :
    \E out \in {getQuota(userId, localStorage, storageFault, net, env, quotas)} :
      /\ Finish("getQuota", userId, out)
      /\ UNCHANGED anonRun

CanGenerate(userId) ==
  \E net \in Outcomes(userId) :
    \E out \in {canGenerate(userId, localStorage, storageFault, net, env, quotas)} :
      /\ Finish("canGenerate", userId, out)
      /\ UNCHANGED anonRun

IncrementQuota(userId) ==
  /\ StoredCount < MaxCount
  /\ userId # NoUser => RemoteCount(quotas, userId) < MaxCount
  /\ \E net \in Outcomes(userId) :
       \E out \in {incrementQuota(userId, localStorage, storageFault, net, env, quotas)} :
         /\ Finish("incrementQuota", userId, out)
         /\ anonRun' = IF userId = NoUser /\ anonRun >= 0 /\ storageFault = "none"
                       THEN anonRun + 1 ELSE -1

SyncQuotaOnLogin(userId) ==
  \E net \in NetOutcomes :
    \E out \in {syncQuotaOnLogin(userId, localStorage, storageFault, net, env, quotas)} :
      /\ Finish("syncQuotaOnLogin", userId, out)
      /\ anonRun' = -1

\* Stripe (or anyone else) posts to the webhook endpoint
Accepted(type, userIds, subscriptionIds, actives) ==
  [httpMethod : {"POST"}, signed : {TRUE}, valid : {TRUE}, type : {type},
   userId : userIds, subscriptionId : subscriptionIds, isActive : actives]

WebhookEvents ==
  Accepted("checkout.session.completed", Users \cup {""}, SubscriptionIds \cup {""}, {TRUE})
  \cup Accepted("customer.subscription.updated", Users \cup {""}, SubscriptionIds, BOOLEAN)
  \cup Accepted("customer.subscription.deleted", Users \cup {""}, SubscriptionIds, {FALSE})
  \cup Accepted("invoice.payment_failed", {""}, SubscriptionIds, {FALSE})
  \cup [httpMethod : {"GET"}, signed : {TRUE}, valid : {TRUE},
        type : {"checkout.session.completed"}, userId : Users,
        subscriptionId : SubscriptionIds, isActive : {TRUE}]
  \cup [httpMethod : {"POST"}, signed : {TRUE, FALSE}, valid : {FALSE},
        type : {"checkout.session.completed"}, userId : Users,
        subscriptionId : SubscriptionIds, isActive : {TRUE}]

StripeWebhook ==
  \E ev \in WebhookEvents, dbFail \in BOOLEAN :
    /\ dbFail => (ev.httpMethod = "POST" /\ ev.valid /\ ev.userId # "")
    /\ \E reply \in {webhookHandler(ev, env, quotas, dbFail)} :
         /\ quotas' = reply.quotas
         /\ lastOp' = OpRecord("stripe-webhook", ev.userId,
                               Returned(JUndefined, localStorage, NoCall(reply.quotas)))
    /\ UNCHANGED <<localStorage, storageFault, env, anonRun, entityVars>>

\* The browser's storage starts or stops failing (private mode, quota
\* exceeded, storage disabled)
StorageFaultChanges ==
  \E f \in StorageFaults :
    /\ f # storageFault
    /\ storageFault' = f
    /\ lastOp' = OpRecord("storage-fault", NoUser,
                          Returned(JUndefined, localStorage, NoCall(quotas)))
    /\ UNCHANGED <<localStorage, env, quotas, anonRun, entityVars>>

\* Nobody is signed in
SignedOut == [current |-> <<>>, issued |-> {}, build |-> "auth.ts"]

\* The state outside the data layer at the start
\* A backend process that has not called ensureTables: tablesInitPromise is
\* null (0), no initialization was started
ColdStart == [cache |-> 0, status |-> <<>>, served |-> <<>>]

ProcessInit == identity = SignedOut /\ inflight = {} /\ tablesInit = ColdStart /\ requests = {}

\* Deployments: nothing configured; AI key and Stripe (secret key and
\* webhook secret) but no database; all configured.
Environments ==
  {[apiKey |-> FALSE, sql |-> FALSE, stripe |-> FALSE, webhookSecret |-> FALSE],
   [apiKey |-> TRUE, sql |-> FALSE, stripe |-> TRUE, webhookSecret |-> TRUE],
   [apiKey |-> TRUE, sql |-> TRUE, stripe |-> TRUE, webhookSecret |-> TRUE]}

Init ==
  /\ localStorage = [k \in {} |-> <<>>]
  /\ storageFault = "none"
  /\ env \in Environments
  /\ quotas = [k \in {} |-> NewRow(0, FALSE, "")]
  /\ lastOp = [op |-> "init", userId |-> NoUser,
               before |-> [localStorage |-> localStorage, quotas |-> quotas],
               fault |-> "none",
               raised |-> FALSE, value |-> JUndefined, call |-> NoCall(quotas),
               quota |-> NoQuota, prev |-> NoPrev]
  /\ anonRun = 0
  /\ apiCall = IdleCall
  /\ db = EmptyDb
  /\ pending = NoPending
  /\ ProcessInit

Next ==
  \/ \E u \in Users \cup {NoUser} : GetQuota(u)
  \/ \E u \in Users \cup {NoUser} : CanGenerate(u)
  \/ \E u \in Users \cup {NoUser} : IncrementQuota(u)
  \/ \E u \in Users : SyncQuotaOnLogin(u)
  \/ StripeWebhook
  \/ StorageFaultChanges

Spec == Init /\ [][Next]_vars

\* ------------------------------------------------------------------------
\* Properties
\* ------------------------------------------------------------------------

IsOp(name) == lastOp.op = name

\* The count the local quota key held when the last operation started, as the
\* operation could read it
LocalCountBefore == getLocalQuotaCount(lastOp.before.localStorage, lastOp.fault)

\* The quota record the backend holds for the last operation's user when the
\* operation started
RemoteRecordBefore ==
  IF env.sql /\ HasRow(lastOp.before.quotas, lastOp.userId)
  THEN [usedGenerations |-> lastOp.before.quotas[lastOp.userId].used_generations,
        limit |-> 10,
        isPremium |-> lastOp.before.quotas[lastOp.userId].is_premium]
  ELSE [usedGenerations |-> 0, limit |-> 10, isPremium |-> FALSE]

GreaterOf(a, b) == IF a > b THEN a ELSE b

\* C1: for one user (of a backend with its database), the usedGenerations that
\* getQuota returns never decreases from one getQuota call to the next.
C1_EffectiveQuotaNeverDecreases ==
  [][ (env.sql /\ lastOp.op = "getQuota" /\ lastOp'.op = "getQuota"
         /\ lastOp.userId \in Users /\ lastOp'.userId = lastOp.userId)
      => lastOp'.value.v.usedGenerations >= lastOp.value.v.usedGenerations ]_vars

\* C2: canGenerate returns true exactly when the quota it obtained is premium
\* or has usedGenerations < limit.
C2_CanGenerateIffPremiumOrBelowLimit ==
  IsOp("canGenerate") =>
     /\ ~lastOp.raised
     /\ lastOp.value.t = "boolean"
     /\ lastOp.value.v = TRUE <=>
          (lastOp.quota.isPremium = TRUE \/ lastOp.quota.usedGenerations < lastOp.quota.limit)
     /\ lastOp.value.v = FALSE <=>
          (lastOp.quota.isPremium = FALSE /\ lastOp.quota.usedGenerations >= lastOp.quota.limit)

\* A premium quota over the limit still lets the user generate.
C2_Witness ==
  /\ IsOp("canGenerate")
  /\ lastOp.quota.isPremium
  /\ lastOp.quota.usedGenerations >= lastOp.quota.limit
  /\ lastOp.value.v = TRUE

\* C3: after N anonymous incrementQuota calls from an absent counter, with
\* working storage and nothing else writing the key, the local counter is N,
\* and an anonymous incrementQuota issues no remote request.
C3_AnonymousCountEqualsCalls ==
  /\ anonRun >= 0 => StoredCount = anonRun
  /\ anonRun > 0 => LS_KEYS.QUOTA \in DOMAIN localStorage
  /\ (IsOp("incrementQuota") /\ lastOp.userId = NoUser) =>
        (lastOp.call.requests = <<>> /\ quotas = lastOp.before.quotas)

C3_Witness ==
  /\ IsOp("incrementQuota") /\ lastOp.userId = NoUser
  /\ anonRun = 10
  /\ localStorage[LS_KEYS.QUOTA] = <<"1", "0">>

\* C4: a sync-quota request that the backend (with its database) handled
\* returns usedGenerations = max(remoteCount, localCount) and leaves exactly
\* that as the stored count.
C4_SyncReturnsAndStoresMax ==
  (IsOp("syncQuotaOnLogin") /\ env.sql /\ lastOp.call.handled
     /\ lastOp.call.response.statusCode = 200) =>
     LET remoteCount == RemoteRecordBefore.usedGenerations
         localCount == lastOp.call.requests[1].payload.localCount
         returned == lastOp.call.response.body.value.v
     IN /\ returned.usedGenerations = GreaterOf(remoteCount, localCount)
        /\ HasRow(quotas, lastOp.userId)
        /\ quotas[lastOp.userId].used_generations = returned.usedGenerations
        /\ returned.limit = 10
        /\ returned.isPremium = RemoteRecordBefore.isPremium

C4_Witness ==
  /\ IsOp("syncQuotaOnLogin") /\ env.sql /\ lastOp.call.handled
  /\ lastOp.call.response.statusCode = 200
  /\ lastOp.call.requests[1].payload.localCount > 0
  /\ RemoteRecordBefore.usedGenerations > lastOp.call.requests[1].payload.localCount
  /\ quotas[lastOp.userId].used_generations = RemoteRecordBefore.usedGenerations

\* The last two operations were syncQuotaOnLogin for the same identity and the
\* second sent a local count no larger than the first.
ResyncWithNoLargerCount ==
  /\ IsOp("syncQuotaOnLogin")
  /\ lastOp.prev.present
  /\ lastOp.call.requests[1].payload.localCount <= lastOp.prev.localCount

\* C5 as stated: the second call does not decrease the remote count and
\* returns the same usedGenerations as the first.
C5_ResyncReturnsSame ==
  (ResyncWithNoLargerCount /\ ~lastOp.raised /\ lastOp.prev.used >= 0) =>
     /\ RemoteCount(quotas, lastOp.userId) >= RemoteCount(lastOp.before.quotas, lastOp.userId)
     /\ lastOp.value.v.usedGenerations = lastOp.prev.used

\* C5 amended: the second call never decreases the remote count, and when
\* both calls got the backend's quota record the second returns the same
\* usedGenerations as the first.
C5_ResyncFromRemoteReturnsSame ==
  ResyncWithNoLargerCount =>
     /\ RemoteCount(quotas, lastOp.userId) >= RemoteCount(lastOp.before.quotas, lastOp.userId)
     /\ (lastOp.prev.fromRemote /\ ~lastOp.raised /\ Truthy(lastOp.call.data)) =>
           /\ lastOp.value.v.usedGenerations = lastOp.prev.used
           /\ RemoteCount(quotas, lastOp.userId) = lastOp.prev.used

C5_Witness ==
  /\ ResyncWithNoLargerCount
  /\ lastOp.prev.fromRemote /\ ~lastOp.raised /\ Truthy(lastOp.call.data)
  /\ lastOp.call.requests[1].payload.localCount < lastOp.prev.localCount
  /\ lastOp.prev.used > lastOp.prev.localCount
  /\ lastOp.value.v.usedGenerations = lastOp.prev.used

\* C6: when the sync-quota call of syncQuotaOnLogin succeeds (and storage
\* works), the operation returns the remote record and the local counter
\* equals the returned and the remote count.
C6_SyncOverwritesLocal ==
  (IsOp("syncQuotaOnLogin") /\ Truthy(lastOp.call.data) /\ lastOp.fault = "none") =>
     /\ ~lastOp.raised
     /\ lastOp.value = lastOp.call.data
     /\ StoredCount = lastOp.value.v.usedGenerations
     /\ StoredCount = RemoteCount(quotas, lastOp.userId)

\* C7: when the remote call of syncQuotaOnLogin fails, the operation returns
\* {usedGenerations: local counter, limit: 10, isPremium: false} and leaves
\* the local counter unchanged.
C7_SyncFallsBackToLocal ==
  (IsOp("syncQuotaOnLogin") /\ ~Truthy(lastOp.call.data)) =>
     /\ ~lastOp.raised
     /\ lastOp.value = JObj([usedGenerations |-> LocalCountBefore, limit |-> 10,
                             isPremium |-> FALSE])
     /\ localStorage = lastOp.before.localStorage

\* The backend merged the count but its response was lost: the caller still
\* gets the local quota.
C7_Witness ==
  /\ IsOp("syncQuotaOnLogin") /\ ~Truthy(lastOp.call.data)
  /\ lastOp.call.handled
  /\ StoredCount > 0
  /\ lastOp.value.v.usedGenerations = StoredCount
  /\ RemoteCount(quotas, lastOp.userId) > StoredCount

\* C8: no db operation raises, whatever the network and the backend do.
C8_NoOperationRaises == ~lastOp.raised

\* C9: getQuota returns the remote record unchanged when the get-quota call
\* yields data, and the local quota {local counter, 10, false} otherwise; an
\* anonymous caller makes no request and is never premium.
C9_GetQuotaRemoteElseLocal ==
  IsOp("getQuota") =>
     /\ ~lastOp.raised
     /\ IF lastOp.userId # NoUser /\ Truthy(lastOp.call.data)
        THEN /\ lastOp.call.handled
             /\ lastOp.value = JObj(RemoteRecordBefore)
        ELSE lastOp.value = JObj([usedGenerations |-> LocalCountBefore, limit |-> 10,
                                  isPremium |-> FALSE])
     /\ lastOp.userId = NoUser =>
           (lastOp.call.requests = <<>> /\ lastOp.value.v.isPremium = FALSE)
     /\ lastOp.userId # NoUser =>
           lastOp.call.requests = <<[action |-> "get-quota",
                                     payload |-> [userId |-> lastOp.userId]]>>
     /\ localStorage = lastOp.before.localStorage

C9_Witness ==
  /\ IsOp("getQuota") /\ lastOp.userId \in Users
  /\ Truthy(lastOp.call.data)
  /\ lastOp.value.v.isPremium
  /\ lastOp.value.v.usedGenerations > 0
  /\ lastOp.value.v.usedGenerations # StoredCount

\* C10: incrementQuota always increments the local counter (a no-op only when
\* the storage write itself fails) and, with a userId, always issues exactly
\* one increment-quota request, also when the storage fails; a failed remote
\* call does not undo the local increment; without a userId no request.
C10_IncrementsAreIndependent ==
  IsOp("incrementQuota") =>
     /\ ~lastOp.raised
     /\ lastOp.call.requests =
          IF lastOp.userId # NoUser
          THEN <<[action |-> "increment-quota", payload |-> [userId |-> lastOp.userId]]>>
          ELSE <<>>
     /\ lastOp.fault = "none" => StoredCount = LocalCountBefore + 1
     /\ lastOp.fault # "none" => localStorage = lastOp.before.localStorage

\* The remote call failed and the local increment stays.
C10_Witness ==
  /\ IsOp("incrementQuota") /\ lastOp.userId \in Users
  /\ ~lastOp.call.handled
  /\ lastOp.fault = "none"
  /\ StoredCount = LocalCountBefore + 1
  /\ StoredCount > 1
  /\ quotas = lastOp.before.quotas

\* ------------------------------------------------------------------------
\* Specification of one callApi invocation after another (part_001:39-67)
\* ------------------------------------------------------------------------

CallActions == {"get-user", "get-history", "save-history"}

\* What may arrive as a response: the status line and headers first, the body
\* after them
StatusCodes == {200, 404, 500}
Responses == [status : StatusCodes, contentType : ContentTypes, kind : BodyKinds]

notCallVars ==
  <<localStorage, storageFault, env, quotas, lastOp, anonRun, db, pending, processVars>>

\* callApi(action) is invoked
CallStart(action) ==
  /\ apiCall.pc \in {"idle", "resolved"}
  /\ apiCall' = Started(action)
  /\ UNCHANGED notCallVars

\* fetch rejects: the request could not be sent, or the connection broke
\* before the response headers arrived
FetchRejects ==
  /\ apiCall.pc = "fetching"
  /\ apiCall' = Caught(apiCall, "transport")
  /\ UNCHANGED notCallVars

\* The timer set at line 41 fires and calls controller.abort()
TimerFires ==
  /\ apiCall.timer = "pending"
  /\ apiCall' = [apiCall EXCEPT !.timer = "fired",
                          !.pc = IF @ = "fetching" THEN "aborting" ELSE @]
  /\ UNCHANGED notCallVars

\* The aborted fetch rejects with an AbortError
AbortRejects ==
  /\ apiCall.pc = "aborting"
  /\ apiCall' = Caught(apiCall, "abort")
  /\ UNCHANGED notCallVars

\* fetch resolves: status line and headers of a response arrived
FetchResolves(resp) ==
  /\ apiCall.pc = "fetching"
  /\ apiCall' = AfterFetch(apiCall, resp)
  /\ UNCHANGED notCallVars

\* The body arrived to its end
BodyArrives ==
  /\ apiCall.pc = "reading"
  /\ apiCall' = AfterBody(apiCall)
  /\ UNCHANGED notCallVars

\* The connection broke while the body was being read
BodyFails ==
  /\ apiCall.pc = "reading"
  /\ apiCall' = Caught(apiCall, "body")
  /\ UNCHANGED notCallVars

InitCall ==
  /\ Init
  /\ env.sql

NextCall ==
  \/ \E action \in CallActions : CallStart(action)
  \/ FetchRejects
  \/ TimerFires
  \/ AbortRejects
  \/ \E resp \in Responses : FetchResolves(resp)
  \/ BodyArrives
  \/ BodyFails

SpecCall == InitCall /\ [][NextCall]_vars

\* The browser runs a timer that is due and settles an aborted fetch; the
\* network owes nothing: it may stay silent for ever.
SpecCallFair ==
  /\ SpecCall
  /\ WF_vars(TimerFires)
  /\ WF_vars(AbortRejects)

CallResolved == apiCall.pc = "resolved"

\* A response was received by the invocation
GotResponse == apiCall.response.status # 0

\* C11: callApi issues exactly one request per invocation and never raises;
\* when fetch rejected (transport error or abort by the timer), when the
\* status is not a success status, and when the body does not parse as JSON,
\* it resolves to null.
C11_OneRequestNeverRaises ==
  /\ apiCall.pc # "idle" => Len(apiCall.requests) = 1
  /\ ~apiCall.raised
  /\ (CallResolved /\ (~GotResponse \/ ~ResponseOk(apiCall.response.status)
                                     \/ ~BodyOf(apiCall.response.kind).json))
       => apiCall.result = JNull

C11_Witness == CallResolved /\ apiCall.timer = "fired" /\ ~GotResponse /\ apiCall.result = JNull

\* C12 as stated: callApi resolves to non-null data only if the response has
\* a success status and a content-type header that says JSON.
C12_DataOnlyWithJsonContentType ==
  (CallResolved /\ apiCall.result # JNull)
    => (ResponseOk(apiCall.response.status) /\ MentionsJson(apiCall.response.contentType))

\* C12 amended: callApi resolves to non-null data only if the response has a
\* success status, a content-type header that is absent or mentions
\* application/json, and a body that parses as JSON; a response with a
\* non-success status, or with a content-type header that is present and
\* does not mention application/json, yields null.
C12_DataOnlyFromAcceptedResponse ==
  /\ (CallResolved /\ apiCall.result # JNull)
       => /\ ResponseOk(apiCall.response.status)
          /\ apiCall.response.contentType = "" \/ MentionsJson(apiCall.response.contentType)
          /\ BodyOf(apiCall.response.kind).json
  /\ (CallResolved /\ GotResponse
       /\ (~ResponseOk(apiCall.response.status)
           \/ (apiCall.response.contentType # "" /\ ~MentionsJson(apiCall.response.contentType))))
       => apiCall.result = JNull

C12_Witness ==
  /\ CallResolved
  /\ apiCall.result # JNull
  /\ apiCall.response.contentType = ""

\* C13: every callApi invocation eventually resolves, whatever the network
\* does.
C13_EveryCallResolves ==
  (apiCall.pc \in {"fetching", "aborting", "reading"}) ~> CallResolved

\* C14: once a callApi invocation has resolved, the timer it started is no
\* longer pending.
C14_NoTimerPendingOnceResolved == CallResolved => apiCall.timer # "pending"

\* ------------------------------------------------------------------------
\* Specification of the entity repositories.  A read operation is one action;
\* a write operation is two: its local-store step, after which the caller
\* waits for callApi, and the settling of that call.  One operation runs at
\* a time.  A run works on one entity family (user, history or profiles):
\* the families share no storage key and no table.
\* ------------------------------------------------------------------------

\* The profile of the signed-in user in two versions; "user-b" is an id that
\* is asked for and never written
UserIds == {"user-a", "user-b"}
UserNames == {"Ann", "Bob"}
UserProfiles == {JObj([id |-> "user-a", name |-> n, phone |-> Some("")]) : n \in UserNames}

\* History items: item 1 in two versions, item 2 with the timestamp of the
\* later one
HistoryIds == {1, 2}
HistoryItems == {[id |-> 1, timestamp |-> 1], [id |-> 1, timestamp |-> 2],
                 [id |-> 2, timestamp |-> 2]}

\* Brief profiles: profile 1 under two names, profile 2 under the second
ProfileIds == {1, 2}
BriefProfiles == {[id |-> 1, name |-> "Alpha"], [id |-> 1, name |-> "Beta"],
                  [id |-> 2, name |-> "Beta"]}

Ties == {"asc", "desc"}

\* The network outcomes the entity operations are run against
EntityOutcomes ==
  {n \in NetOutcomes :
     /\ n.contentType \in {"", "application/json", "text/html"}
     /\ n.kind = "page" => n.status = 404
     /\ n.dbFail => n.kind = "handled"}

\* The request a write operation sends
SaveAction(op) ==
  CASE op = "saveUser" -> "save-user"
    [] op = "saveHistoryItem" -> "save-history"
    [] op = "saveProfile" -> "save-profile"
    [] op = "deleteProfile" -> "delete-profile"

SavePayload(op, arg) ==
  CASE op = "saveUser" -> arg.v
    [] op = "deleteProfile" -> [id |-> arg]
    [] OTHER -> arg

\* The local-store step of a write operation
LocalStep(op, ls, fault, arg) ==
  CASE op = "saveUser" -> localStore_saveUser(ls, fault, arg)
    [] op = "saveHistoryItem" -> localStore_saveHistoryItem(ls, fault, arg)
    [] op = "saveProfile" -> localStore_saveProfile(ls, fault, arg)
    [] op = "deleteProfile" -> localStore_deleteProfile(ls, fault, arg)

\* Mutant: a failed remote write restores the local storage
SaveSettled_RollsBack(ls, lsBefore, c) == IF Truthy(c.data) THEN ls ELSE lsBefore

\* The local storage when the awaited callApi of a write operation has
\* resolved: the operation ends there, whatever the call resolved to
SaveSettled(ls, lsBefore, c) == ls

\* A family is in use when its key or its table holds something or one of its
\* writes is pending
UserInUse ==
  \/ LS_KEYS.USER \in DOMAIN localStorage
  \/ DOMAIN db.users # {}
  \/ pending.op = "saveUser"

HistoryInUse ==
  \/ LS_KEYS.HISTORY \in DOMAIN localStorage
  \/ DOMAIN db.history # {}
  \/ pending.op = "saveHistoryItem"

ProfilesInUse ==
  \/ LS_KEYS.PROFILES \in DOMAIN localStorage
  \/ DOMAIN db.profiles # {}
  \/ pending.op \in {"saveProfile", "deleteProfile"}

NoEntityCall == [data |-> JNull, db |-> db, requests |-> <<>>, handled |-> FALSE]

\* The operation that ran before, as far as a later one is compared with it
NoEntityPrev == [op |-> "none", arg |-> <<>>, fault |-> "none", failed |-> FALSE]

EntityPrev(o) ==
  IF o.op = "saveUser" \/ (o.op = "saveHistoryItem" /\ ~Truthy(o.data))
  THEN [op |-> o.op, arg |-> o.arg, fault |-> o.fault, failed |-> ~Truthy(o.data)]
  ELSE NoEntityPrev

\* The record of a finished operation: its argument, the storage fault it ran
\* under, the state it started from, what it returned and what its call did
EntityRecord(op, arg, fault, before, value, c) ==
  [op |-> op, arg |-> arg, fault |-> fault, before |-> before, value |-> value,
   data |-> c.data, handled |-> c.handled, requests |-> Len(c.requests),
   prev |-> EntityPrev(lastOp)]

notQuotaVars == <<quotas, anonRun, apiCall, processVars>>

\* The local-store step of saveUser, saveHistoryItem, saveProfile or
\* deleteProfile; the operation then awaits callApi
SaveLocally(op, arg) ==
  /\ pending.op = "none"
  /\ localStorage' = LocalStep(op, localStorage, storageFault, arg)
  /\ pending' = [op |-> op, arg |-> arg, fault |-> storageFault,
                 before |-> [localStorage |-> localStorage, db |-> db]]
  /\ UNCHANGED <<storageFault, env, db, lastOp, notQuotaVars>>

SaveUser(user) == ~HistoryInUse /\ ~ProfilesInUse /\ SaveLocally("saveUser", user)

SaveHistoryItem(item) ==
  ~UserInUse /\ ~ProfilesInUse /\ SaveLocally("saveHistoryItem", item)

SaveProfile(profile) ==
  ~UserInUse /\ ~HistoryInUse /\ SaveLocally("saveProfile", profile)

DeleteProfile(id) ==
  ~UserInUse /\ ~HistoryInUse /\ SaveLocally("deleteProfile", id)

\* The callApi a write operation awaits resolves
SaveSettles ==
  /\ pending.op # "none"
  /\ \E net \in EntityOutcomes :
       \E c \in {callEntityApi(SaveAction(pending.op), SavePayload(pending.op, pending.arg),
                               net, "asc", env, db)} :
         /\ db' = c.db
         /\ localStorage' = SaveSettled(localStorage, pending.before.localStorage, c)
         /\ lastOp' = EntityRecord(pending.op, pending.arg, pending.fault, pending.before,
                                   JUndefined, c)
  /\ pending' = NoPending
  /\ UNCHANGED <<storageFault, env, notQuotaVars>>

\* A read operation ran to its end with outcome `out`
ReadDone(op, arg, out) ==
  /\ pending.op = "none"
  /\ localStorage' = out.localStorage
  /\ db' = out.call.db
  /\ lastOp' = EntityRecord(op, arg, storageFault,
                            [localStorage |-> localStorage, db |-> db],
                            out.value, out.call)
  /\ UNCHANGED <<storageFault, env, pending, notQuotaVars>>

GetUser(id) ==
  /\ ~HistoryInUse /\ ~ProfilesInUse
  /\ \E net \in EntityOutcomes :
       \E out \in {getUser(id, localStorage, storageFault, net, env, db)} :
         ReadDone("getUser", id, out)

GetHistory ==
  /\ ~UserInUse /\ ~ProfilesInUse
  /\ \E net \in EntityOutcomes, tie \in Ties :
       \E out \in {getHistory(localStorage, storageFault, net, tie, env, db)} :
         ReadDone("getHistory", <<>>, out)

GetProfiles ==
  /\ ~UserInUse /\ ~HistoryInUse
  /\ \E net \in EntityOutcomes, tie \in Ties :
       \E out \in {getProfiles(localStorage, storageFault, net, tie, env, db)} :
         ReadDone("getProfiles", <<>>, out)

\* The browser's storage starts or stops failing
RepoStorageFaultChanges ==
  /\ pending.op = "none"
  /\ \E f \in StorageFaults :
       /\ f # storageFault
       /\ storageFault' = f
  /\ lastOp' = EntityRecord("storage-fault", <<>>, storageFault,
                            [localStorage |-> localStorage, db |-> db],
                            JUndefined, NoEntityCall)
  /\ UNCHANGED <<localStorage, env, db, pending, notQuotaVars>>

InitRepo ==
  /\ localStorage = [k \in {} |-> <<>>]
  /\ storageFault = "none"
  /\ env \in Environments
  /\ quotas = [k \in {} |-> NewRow(0, FALSE, "")]
  /\ anonRun = 0
  /\ apiCall = IdleCall
  /\ db = EmptyDb
  /\ pending = NoPending
  /\ ProcessInit
  /\ lastOp = [op |-> "init", arg |-> <<>>, fault |-> "none",
               before |-> [localStorage |-> localStorage, db |-> db],
               value |-> JUndefined, data |-> JNull, handled |-> FALSE,
               requests |-> 0, prev |-> NoEntityPrev]

NextRepo ==
  \/ \E user \in UserProfiles : SaveUser(user)
  \/ \E id \in UserIds : GetUser(id)
  \/ \E item \in HistoryItems : SaveHistoryItem(item)
  \/ GetHistory
  \/ \E profile \in BriefProfiles : SaveProfile(profile)
  \/ \E id \in ProfileIds : DeleteProfile(id)
  \/ GetProfiles
  \/ SaveSettles
  \/ RepoStorageFaultChanges

SpecRepo == InitRepo /\ [][NextRepo]_vars

\* ------------------------------------------------------------------------
\* Properties of the entity repositories
\* ------------------------------------------------------------------------

ReadOps == {"getUser", "getHistory", "getProfiles"}
SaveOps == {"saveUser", "saveHistoryItem", "saveProfile"}
WriteOps == SaveOps \cup {"deleteProfile"}

\* No operation is between its two steps: lastOp is the operation that led to
\* the present state
Settled == pending.op = "none"

KeyOf(op) ==
  CASE op \in {"getUser", "saveUser"} -> LS_KEYS.USER
    [] op \in {"getHistory", "saveHistoryItem"} -> LS_KEYS.HISTORY
    [] OTHER -> LS_KEYS.PROFILES

\* The text a key holds, read from a working storage
Mirror(ls, key) == StorageGet(ls, "none", key)

\* The remote fetch of the last read operation returned a non-empty result
RemoteNonEmpty ==
  IF lastOp.op = "getUser" THEN Truthy(lastOp.data) ELSE NonEmptyArray(lastOp.data)

\* What the local mirror holds for a read operation: the stored profile with
\* the id asked for (or null), the stored list (or the empty list)
LocalContent(op, ls, fault, arg) ==
  CASE op = "getUser" -> localStore_getUser(ls, fault, arg)
    [] op = "getHistory" -> localStore_getHistory(ls, fault)
    [] op = "getProfiles" -> localStore_getProfiles(ls, fault)

Absent(op) == IF op = "getUser" THEN JNull ELSE JArr(<<>>)

\* The mirror holds what a save operation wrote: the profile, or the item at
\* the head of the list
MirrorHolds(op, arg, ls) ==
  IF op = "saveUser" THEN Mirror(ls, LS_KEYS.USER) = Some(JsonStringify(arg))
  ELSE LET list == StoredList(ls, "none", KeyOf(op)).v
       IN Len(list) > 0 /\ list[1] = arg

\* C15: when the browser storage raises on reads or writes, every entity
\* operation still runs to its end and issues its request; writes are no-ops
\* (the storage is left as it was) and, with reads failing too, a read
\* operation that gets nothing from the backend returns what it returns for
\* an absent key: null for a profile, the empty list for a list.
C15_StorageFaultsDegrade ==
  /\ (pending.op # "none" /\ pending.fault # "none")
       => localStorage = pending.before.localStorage
  /\ (Settled /\ lastOp.op \in ReadOps \cup WriteOps /\ lastOp.fault # "none")
       => /\ localStorage = lastOp.before.localStorage
          /\ lastOp.requests = 1
  /\ (Settled /\ lastOp.op \in ReadOps /\ lastOp.fault = "all" /\ ~RemoteNonEmpty)
       => lastOp.value = Absent(lastOp.op)

\* Storage is disabled, the key holds a list, the backend gave nothing
C15_Witness ==
  /\ Settled
  /\ lastOp.op = "getHistory"
  /\ lastOp.fault = "all"
  /\ ~RemoteNonEmpty
  /\ LS_KEYS.HISTORY \in DOMAIN localStorage
  /\ lastOp.value = JArr(<<>>)

\* C16: for getUser, getHistory and getProfiles (storage working): when the
\* remote fetch returns a non-empty result the operation returns that result
\* and the local mirror afterwards holds that result; when it returns nothing
\* the operation returns the content of the local mirror (for getUser: the
\* mirrored profile when it has the id asked for) and leaves the mirror as
\* it was.
C16_ReadsPreferRemoteAndMirror ==
  (Settled /\ lastOp.op \in ReadOps /\ lastOp.fault = "none")
    => IF RemoteNonEmpty
       THEN /\ lastOp.value = lastOp.data
            /\ Mirror(localStorage, KeyOf(lastOp.op)) = Some(JsonStringify(lastOp.data))
       ELSE /\ lastOp.value = LocalContent(lastOp.op, lastOp.before.localStorage,
                                           "none", lastOp.arg)
            /\ localStorage = lastOp.before.localStorage

\* The remote list replaced a different local list
C16_Witness ==
  /\ Settled
  /\ lastOp.op = "getHistory"
  /\ lastOp.fault = "none"
  /\ RemoteNonEmpty
  /\ LS_KEYS.HISTORY \in DOMAIN lastOp.before.localStorage
  /\ localStorage # lastOp.before.localStorage

\* C17: in saveUser, saveHistoryItem and saveProfile (storage working) the
\* local write is in place while the operation waits for its remote call and
\* the backend has not been changed by that call yet; when the call has
\* resolved, failed or not, the local write is still in place.
C17_LocalWriteFirstAndKept ==
  /\ (pending.op \in SaveOps /\ pending.fault = "none")
       => /\ MirrorHolds(pending.op, pending.arg, localStorage)
          /\ db = pending.before.db
  /\ (Settled /\ lastOp.op \in SaveOps /\ lastOp.fault = "none")
       => MirrorHolds(lastOp.op, lastOp.arg, localStorage)

\* The remote write failed and the local write stays
C17_Witness ==
  /\ Settled
  /\ lastOp.op = "saveProfile"
  /\ lastOp.fault = "none"
  /\ ~Truthy(lastOp.data)
  /\ ~lastOp.handled
  /\ MirrorHolds(lastOp.op, lastOp.arg, localStorage)

\* C18: an item whose saveHistoryItem wrote it locally and whose remote
\* save-history call failed is still in the local history snapshot after a
\* getHistory that follows, whatever the remote returned.
C18_FailedSaveSurvivesGetHistory ==
  (/\ Settled
   /\ lastOp.op = "getHistory"
   /\ lastOp.fault = "none"
   /\ lastOp.prev.op = "saveHistoryItem"
   /\ lastOp.prev.fault = "none"
   /\ lastOp.prev.failed)
    => LET list == localStore_getHistory(localStorage, "none").v
       IN \E j \in 1..Len(list) : list[j] = lastOp.prev.arg

\* C19: a getUser(u.id) that follows a saveUser(u) whose local-store step was
\* done returns the profile written (its id and its name), whatever became of
\* the remote save and of the get-user call.
C19_GetUserReturnsWrittenProfile ==
  (/\ Settled
   /\ lastOp.op = "getUser"
   /\ lastOp.fault = "none"
   /\ lastOp.prev.op = "saveUser"
   /\ lastOp.prev.fault = "none"
   /\ lastOp.prev.arg.v.id = lastOp.arg)
    => /\ lastOp.value.t = "object"
       /\ lastOp.value.v.id = lastOp.prev.arg.v.id
       /\ lastOp.value.v.name = lastOp.prev.arg.v.name

\* The ids of a list of items
IdsOf(list) == {list[i].id : i \in 1..Len(list)}

\* A list of history items is ordered newest first
NewestFirstByTimestamp(list) ==
  \A i, j \in 1..Len(list) : i < j => list[i].timestamp >= list[j].timestamp

\* The history snapshot a state's local storage holds
HistoryOf(ls) == localStore_getHistory(ls, "none").v

\* C21: when the local history snapshot is ordered newest first by timestamp
\* and saveHistoryItem writes an item under an id the snapshot does not hold
\* (storage working), the snapshot afterwards is ordered newest first by
\* timestamp again.
C21_SnapshotOrderedByTimestamp ==
  (/\ Settled
   /\ lastOp.op = "saveHistoryItem"
   /\ lastOp.fault = "none"
   /\ lastOp.arg.id \notin IdsOf(HistoryOf(lastOp.before.localStorage))
   /\ NewestFirstByTimestamp(HistoryOf(lastOp.before.localStorage)))
    => NewestFirstByTimestamp(HistoryOf(localStorage))

\* The remote get-history call of the last operation gave an empty list or
\* no data
EmptyRemote == lastOp.data.t # "array" \/ lastOp.data.v = <<>>

\* C22: when the remote get-history call returns an empty array or no data,
\* getHistory returns the local history snapshot (what localStore.getHistory
\* reads) and the local storage is as it was before the read.
C22_EmptyRemoteFallsBackToLocal ==
  (Settled /\ lastOp.op = "getHistory" /\ EmptyRemote)
    => /\ lastOp.value = localStore_getHistory(lastOp.before.localStorage, lastOp.fault)
       /\ localStorage = lastOp.before.localStorage

\* The backend answered with an empty list and the local snapshot holds items
C22_Witness ==
  /\ Settled
  /\ lastOp.op = "getHistory"
  /\ lastOp.fault = "none"
  /\ lastOp.handled
  /\ lastOp.data = JArr(<<>>)
  /\ lastOp.value.t = "array"
  /\ Len(lastOp.value.v) > 0
  /\ HistoryOf(localStorage) = lastOp.value.v

\* The profiles snapshot a state's local storage holds
ProfilesOf(ls) == localStore_getProfiles(ls, "none").v

\* What saveProfile and deleteProfile are to leave of the snapshot `old`:
\* no entry of the id but `entries`, and the other entries as they were
ReplacedById(new, old, id, entries) ==
  /\ SelectSeq(new, LAMBDA p : p.id = id) = entries
  /\ SelectSeq(new, LAMBDA p : p.id # id) = SelectSeq(old, LAMBDA p : p.id # id)

ProfileWritten(op, arg, lsBefore, ls) ==
  IF op = "saveProfile"
  THEN ReplacedById(ProfilesOf(ls), ProfilesOf(lsBefore), arg.id, <<arg>>)
  ELSE ReplacedById(ProfilesOf(ls), ProfilesOf(lsBefore), arg, <<>>)

\* C23: (storage working) after the local step of saveProfile(p), and still
\* when its remote call has resolved, the local profiles snapshot holds
\* exactly one entry of id p.id, equal to p, and the entries of other ids as
\* before; after deleteProfile(id) it holds no entry of that id and the
\* others as before, whether the remote delete-profile call succeeded or
\* failed; in no state do two entries of the snapshot share an id.
C23_ProfilesReplacedAndDeletedById ==
  /\ (pending.op \in {"saveProfile", "deleteProfile"} /\ pending.fault = "none")
       => ProfileWritten(pending.op, pending.arg, pending.before.localStorage, localStorage)
  /\ (Settled /\ lastOp.op \in {"saveProfile", "deleteProfile"} /\ lastOp.fault = "none")
       => ProfileWritten(lastOp.op, lastOp.arg, lastOp.before.localStorage, localStorage)
  /\ \A i, j \in 1..Len(ProfilesOf(localStorage)) :
       i # j => ProfilesOf(localStorage)[i].id # ProfilesOf(localStorage)[j].id

\* A profile was deleted locally, another one stayed, and the remote delete
\* failed
C23_Witness ==
  /\ Settled
  /\ lastOp.op = "deleteProfile"
  /\ lastOp.fault = "none"
  /\ ~Truthy(lastOp.data)
  /\ lastOp.arg \in IdsOf(ProfilesOf(lastOp.before.localStorage))
  /\ Len(ProfilesOf(localStorage)) = 1
  /\ lastOp.arg \notin IdsOf(ProfilesOf(localStorage))

\* C34: when deleteProfile(id) has completed and getProfiles runs next (no
\* saveProfile in between), the list getProfiles returns and the local
\* profiles snapshot it leaves do not hold a profile with that id
C34_DeletedProfileStaysDeleted ==
  [][(lastOp.op = "deleteProfile" /\ lastOp'.op = "getProfiles")
       => /\ lastOp.arg \notin IdsOf(lastOp'.value.v)
          /\ lastOp.arg \notin IdsOf(ProfilesOf(localStorage'))]_vars

\* C35: getUser(id) returns null or a profile whose id is the requested id
C35_GetUserReturnsRequestedIdOrNull ==
  lastOp.op = "getUser"
    => \/ lastOp.value.t = "null"
       \/ (lastOp.value.t = "object" /\ lastOp.value.v.id = lastOp.arg)

\* getUser("user-b") got nothing from the backend while the local user slot
\* held the profile of "user-a", and returned null
C35_Witness ==
  /\ lastOp.op = "getUser"
  /\ lastOp.arg = "user-b"
  /\ lastOp.fault = "none"
  /\ ~Truthy(lastOp.data)
  /\ Mirror(lastOp.before.localStorage, LS_KEYS.USER) # Nothing
  /\ Parsed(Mirror(lastOp.before.localStorage, LS_KEYS.USER)[1]).v.id = "user-a"
  /\ lastOp.value.t = "null"

\* ------------------------------------------------------------------------
\* Specification of a long history.  The client has saved HistoryStart items
\* one after the other, each of them stored by the backend too; from there
\* items are saved (new ones, or again under an id the snapshot holds) and
\* the history is read, until MaxItems saves were made.  The items a caller
\* passes carry a timestamp that grows with every save, and a new item's id
\* is numbered by it (HistoryItem.id is a string; only its equality matters).
\* ------------------------------------------------------------------------

HistoryStart == 49
MaxItems == 52

NewestFirst(n) == [i \in 1..n |-> [id |-> n + 1 - i, timestamp |-> n + 1 - i]]

StartTable == [k \in 1..HistoryStart |-> [timestamp |-> k]]

\* The local history snapshot
LocalHistory == localStore_getHistory(localStorage, "none").v

\* The request is lost, or the backend handles it and its answer arrives
HistoryOutcomes ==
  {n \in EntityOutcomes :
     \/ n.kind = "lost"
     \/ n.kind = "handled" /\ n.contentType = "application/json" /\ ~n.dbFail}

\* The ids an item is saved under: a new one, or the id of the newest or of
\* the oldest item of the snapshot
SaveableIds(clock, list) ==
  {clock} \cup (IF list = <<>> THEN {} ELSE {list[1].id, list[Len(list)].id})

HistoryRecord(op, arg, clock) ==
  [op |-> op, arg |-> arg, fault |-> storageFault,
   before |-> [localStorage |-> localStorage, db |-> db], clock |-> clock]

notHistoryVars == <<storageFault, env, pending, quotas, anonRun, apiCall, processVars>>

\* db.saveHistoryItem, from its local-store step to the end of its call
SaveHistoryItemWhole ==
  /\ lastOp.clock < MaxItems
  /\ \E id \in SaveableIds(lastOp.clock + 1, LocalHistory), net \in HistoryOutcomes :
       LET item == [id |-> id, timestamp |-> lastOp.clock + 1]
           ls1 == localStore_saveHistoryItem(localStorage, storageFault, item)
           c == callEntityApi("save-history", item, net, "asc", env, db)
       IN /\ localStorage' = SaveSettled(ls1, localStorage, c)
          /\ db' = c.db
          /\ lastOp' = HistoryRecord("saveHistoryItem", item, lastOp.clock + 1)
  /\ UNCHANGED notHistoryVars

\* db.getHistory
GetHistoryWhole ==
  /\ \E net \in HistoryOutcomes :
       \E out \in {getHistory(localStorage, storageFault, net, "asc", env, db)} :
         /\ localStorage' = out.localStorage
         /\ db' = out.call.db
         /\ lastOp' = HistoryRecord("getHistory", <<>>, lastOp.clock)
  /\ UNCHANGED notHistoryVars

InitHistory ==
  /\ localStorage = [k \in {LS_KEYS.HISTORY} |-> JsonStringify(JArr(NewestFirst(HistoryStart)))]
  /\ storageFault = "none"
  /\ env \in {e \in Environments : e.sql}
  /\ quotas = [k \in {} |-> NewRow(0, FALSE, "")]
  /\ anonRun = 0
  /\ apiCall = IdleCall
  /\ db = [EmptyDb EXCEPT !.history = StartTable]
  /\ pending = NoPending
  /\ ProcessInit
  /\ lastOp = HistoryRecord("init", <<>>, HistoryStart)

NextHistory ==
  \/ SaveHistoryItemWhole
  \/ GetHistoryWhole

SpecHistory == InitHistory /\ [][NextHistory]_vars

HistoryBefore == localStore_getHistory(lastOp.before.localStorage, "none").v

\* C20: the local history snapshot holds at most 50 entries and no two of
\* them share an id; after saveHistoryItem(item) the item is the first entry
\* and the only one with its id, and when its id was in the snapshot before,
\* the snapshot has as many entries as before (the old entry was replaced).
C20_LocalHistoryBoundedAndUnique ==
  /\ Len(LocalHistory) <= MAX_LOCAL_HISTORY_ITEMS
  /\ \A i, j \in 1..Len(LocalHistory) : i # j => LocalHistory[i].id # LocalHistory[j].id
  /\ lastOp.op = "saveHistoryItem"
       => /\ LocalHistory[1] = lastOp.arg
          /\ lastOp.arg.id \in IdsOf(HistoryBefore)
               => Len(LocalHistory) = Len(HistoryBefore)

\* The snapshot was full and a new item pushed the oldest one out
C20_Witness ==
  /\ lastOp.op = "saveHistoryItem"
  /\ Len(HistoryBefore) = MAX_LOCAL_HISTORY_ITEMS
  /\ lastOp.arg.id \notin IdsOf(HistoryBefore)
  /\ Len(LocalHistory) = MAX_LOCAL_HISTORY_ITEMS
  /\ HistoryBefore[MAX_LOCAL_HISTORY_ITEMS].id \notin IdsOf(LocalHistory)

\* ------------------------------------------------------------------------
\* Stripe checkout (api.ts:270-312, part_001:262-292)
\* ------------------------------------------------------------------------

\* Deployments as far as checkout depends on them: STRIPE_SECRET_KEY and
\* STRIPE_PRICE_ID present or not, besides the AI key and the database URL
CheckoutEnvironments ==
  {[apiKey |-> FALSE, sql |-> FALSE, stripe |-> FALSE, priceId |-> FALSE],
   [apiKey |-> TRUE, sql |-> FALSE, stripe |-> FALSE, priceId |-> TRUE],
   [apiKey |-> TRUE, sql |-> TRUE, stripe |-> TRUE, priceId |-> FALSE],
   [apiKey |-> FALSE, sql |-> TRUE, stripe |-> TRUE, priceId |-> TRUE],
   [apiKey |-> TRUE, sql |-> TRUE, stripe |-> TRUE, priceId |-> TRUE]}

\* stripe.checkout.sessions.create: it resolves to a session, or rejects
\* with an error that has a message or none
StripeApiOutcomes ==
  {[rejects |-> FALSE, message |-> ""],
   [rejects |-> TRUE, message |-> "No such price"],
   [rejects |-> TRUE, message |-> ""]}

SessionUrl == "https://checkout.stripe.com/c/pay/cs_1"

\* a || b on strings
OrElse(a, b) == IF a # "" THEN a ELSE b

CheckoutReply(statusCode, body) == [statusCode |-> statusCode, body |-> body]

\* An error body: the message under `error`; the body of a Stripe error has
\* the error's type next to it, which the client does not read
ErrorBody(msg) == [json |-> TRUE, error |-> msg, url |-> ""]

SessionBody(url) == [json |-> TRUE, error |-> "", url |-> url]

\* case 'create-checkout'
CreateCheckoutCase(payload, cfg, stripeApi) ==
  IF ~cfg.stripe
  THEN CheckoutReply(500, ErrorBody("Stripe not configured (missing secret key)"))
  ELSE IF ~cfg.priceId
  THEN CheckoutReply(500, ErrorBody("Stripe not configured (missing price ID)"))
  ELSE IF payload.userId = "" \/ payload.userEmail = ""
  THEN CheckoutReply(400, ErrorBody("Missing userId or userEmail"))
  ELSE IF stripeApi.rejects
  THEN CheckoutReply(500, ErrorBody(OrElse(stripeApi.message, "Stripe checkout failed")))
  ELSE CheckoutReply(200, SessionBody(SessionUrl))

\* handler, for a POST with action create-checkout
checkoutHandler(payload, cfg, stripeApi) ==
  IF ~cfg.apiKey /\ ~cfg.sql
  THEN CheckoutReply(500, ErrorBody("Configuration Error"))
  ELSE CreateCheckoutCase(payload, cfg, stripeApi)

\* What the network does with the checkout request: fetch rejects; an
\* intermediary answers with an error page of its own (HTML, or JSON without
\* an `error` member) or with an HTML page under a success status; the
\* backend's response arrives
CheckoutNet ==
  {[kind |-> "lost", status |-> 0, page |-> ""],
   [kind |-> "page", status |-> 502, page |-> "html"],
   [kind |-> "page", status |-> 502, page |-> "json"],
   [kind |-> "page", status |-> 200, page |-> "html"],
   [kind |-> "handled", status |-> 0, page |-> ""]}

\* The body of an intermediary's page
PageBody(page) ==
  IF page = "json" THEN [json |-> TRUE, error |-> "", url |-> ""]
  ELSE [json |-> FALSE, error |-> "", url |-> ""]

\* The response fetch resolves with
CheckoutResponse(payload, net, cfg, stripeApi) ==
  IF net.kind = "handled" THEN checkoutHandler(payload, cfg, stripeApi)
  ELSE CheckoutReply(net.status, PageBody(net.page))

\* `Checkout failed (${response.status})`
CheckoutFailed(status) == "Checkout failed (" \o status \o ")"

StatusText(statusCode) ==
  CASE statusCode = 400 -> "400" [] statusCode = 500 -> "500" [] statusCode = 502 -> "502"
    [] OTHER -> "200"

CheckoutThrew(message) == [raised |-> TRUE, message |-> message, value |-> Nothing]
CheckoutReturned(value) == [raised |-> FALSE, message |-> "", value |-> value]

\* Mutant: a failed checkout resolves to null, as every callApi operation does
createCheckoutSession_Swallows(userId, userEmail, net, cfg, stripeApi) ==
  LET payload == [userId |-> userId, userEmail |-> userEmail]
      response == CheckoutResponse(payload, net, cfg, stripeApi)
  IN IF net.kind = "lost" \/ ~response.body.json \/ ~ResponseOk(response.statusCode)
     THEN CheckoutReturned(Nothing)
     ELSE CheckoutReturned(IF response.body.url # "" THEN Some(response.body.url) ELSE Nothing)

\* db.createCheckoutSession(userId, userEmail): the catch block rethrows what
\* fetch, response.json() or the status check threw.  The success and cancel
\* URLs of the payload are passed on to Stripe and decide nothing here.
createCheckoutSession(userId, userEmail, net, cfg, stripeApi) ==
  LET payload == [userId |-> userId, userEmail |-> userEmail]
      response == CheckoutResponse(payload, net, cfg, stripeApi)
      data == response.body
  IN IF net.kind = "lost" THEN CheckoutThrew("Failed to fetch")
     ELSE IF ~data.json THEN CheckoutThrew("Unexpected token < in JSON")
     ELSE IF ~ResponseOk(response.statusCode)
     THEN CheckoutThrew(OrElse(data.error, CheckoutFailed(StatusText(response.statusCode))))
     ELSE CheckoutReturned(IF data.url # "" THEN Some(data.url) ELSE Nothing)

\* ------------------------------------------------------------------------
\* Specification of checkout: the deployment is fixed at the start and
\* createCheckoutSession is called again and again
\* ------------------------------------------------------------------------

CheckoutUserIds == {"", "user-a"}
CheckoutEmails == {"", "ann@example.org"}

CheckoutRecord(op, userId, userEmail, net, stripeApi, response, out) ==
  [op |-> op, userId |-> userId, userEmail |-> userEmail, net |-> net,
   stripeApi |-> stripeApi, statusCode |-> response.statusCode,
   error |-> response.body.error, out |-> out]

NoCheckout ==
  CheckoutRecord("init", "", "", CHOOSE n \in CheckoutNet : n.kind = "lost",
                 CHOOSE s \in StripeApiOutcomes : ~s.rejects,
                 CheckoutReply(0, PageBody("html")), CheckoutReturned(Nothing))

CreateCheckoutSession(userId, userEmail) ==
  /\ \E net \in CheckoutNet, stripeApi \in StripeApiOutcomes :
       lastOp' = CheckoutRecord("createCheckoutSession", userId, userEmail, net, stripeApi,
                   CheckoutResponse([userId |-> userId, userEmail |-> userEmail],
                                    net, env, stripeApi),
                   createCheckoutSession(userId, userEmail, net, env, stripeApi))
  /\ UNCHANGED <<localStorage, storageFault, env, quotas, anonRun, entityVars>>

InitCheckout ==
  /\ localStorage = [k \in {} |-> <<>>]
  /\ storageFault = "none"
  /\ env \in CheckoutEnvironments
  /\ quotas = [k \in {} |-> NewRow(0, FALSE, "")]
  /\ anonRun = 0
  /\ apiCall = IdleCall
  /\ db = EmptyDb
  /\ pending = NoPending
  /\ ProcessInit
  /\ lastOp = NoCheckout

NextCheckout ==
  \E userId \in CheckoutUserIds, userEmail \in CheckoutEmails :
    CreateCheckoutSession(userId, userEmail)

SpecCheckout == InitCheckout /\ [][NextCheckout]_vars

\* The checkout request of the last operation failed: the transport failed or
\* the response has no success status
CheckoutRequestFailed ==
  lastOp.net.kind = "lost" \/ ~ResponseOk(lastOp.statusCode)

\* C24: whenever the checkout request fails (the transport fails, or the
\* response has a non-success status) createCheckoutSession raises and does
\* not resolve; when the failed response is the backend's, the error raised
\* carries the message of the backend's body; when the backend answers with
\* a success status the operation returns the session's redirect URL.
C24_CheckoutFailureIsRaised ==
  lastOp.op = "createCheckoutSession"
    => /\ CheckoutRequestFailed => lastOp.out.raised /\ lastOp.out.value = Nothing
       /\ (lastOp.net.kind = "handled" /\ ~ResponseOk(lastOp.statusCode))
            => lastOp.out.message = lastOp.error /\ lastOp.error # ""
       /\ (lastOp.net.kind = "handled" /\ ResponseOk(lastOp.statusCode))
            => ~lastOp.out.raised /\ lastOp.out.value = Some(SessionUrl)

\* Stripe rejected the session and the caller got Stripe's message
C24_Witness ==
  /\ lastOp.op = "createCheckoutSession"
  /\ lastOp.net.kind = "handled"
  /\ lastOp.stripeApi.rejects
  /\ lastOp.statusCode = 500
  /\ lastOp.out.raised
  /\ lastOp.out.message = "No such price"

\* ------------------------------------------------------------------------
\* Identity service (src/services/auth.ts; part_000 is the build without a
\* provider tag).  Strings that are cut are sequences of characters.
\* ------------------------------------------------------------------------

STABLE_ID_LENGTH == 12

\* netlifyUserId.substring(0, n)
Substring0(s, n) == SubSeq(s, 1, IF Len(s) < n THEN Len(s) ELSE n)

GoogleTag == <<"g", "o", "o", "g", "l", "e">>
EmailTag == <<"e", "m", "a", "i", "l">>
UserTag == <<"u", "s", "e", "r">>

\* Mutant: the subject is not cut
generateStableId_Uncut(netlifyUserId, provider) == provider \o <<"-">> \o netlifyUserId

\* generateStableId (auth.ts): `${provider}-${netlifyUserId.substring(0, 12)}`
generateStableId(netlifyUserId, provider) ==
  provider \o <<"-">> \o Substring0(netlifyUserId, STABLE_ID_LENGTH)

\* netlifyUser.app_metadata?.provider || 'google'
ProviderOf(netlifyUser) ==
  IF netlifyUser.provider # <<>> THEN netlifyUser.provider ELSE GoogleTag

\* netlifyUser.email.split('@')[0], for the addresses of the model
LocalPart(email) == IF email = "ann@example.org" THEN "ann" ELSE "bob"

\* mapNetlifyUserToProfile (auth.ts)
mapNetlifyUserToProfile(netlifyUser) ==
  [id |-> generateStableId(netlifyUser.id, ProviderOf(netlifyUser)),
   name |-> OrElse(netlifyUser.full_name, LocalPart(netlifyUser.email)),
   email |-> netlifyUser.email]

\* mapNetlifyUserToProfile (part_000): the tag is always `user`
mapNetlifyUserToProfile_part_000(netlifyUser) ==
  [id |-> generateStableId(netlifyUser.id, UserTag),
   name |-> OrElse(netlifyUser.full_name, LocalPart(netlifyUser.email)),
   email |-> netlifyUser.email]

ProfileOf(build, netlifyUser) ==
  IF build = "auth.ts" THEN mapNetlifyUserToProfile(netlifyUser)
  ELSE mapNetlifyUserToProfile_part_000(netlifyUser)

\* authService.getCurrentUser: null or the profile of the widget's user
getCurrentUser(idn) ==
  IF idn.current = <<>> THEN <<>> ELSE <<ProfileOf(idn.build, idn.current[1])>>

\* ------------------------------------------------------------------------
\* Specification of signing in: external identities sign in and out through
\* the widget, their metadata changes, and the app asks for the current user
\* ------------------------------------------------------------------------

\* Subjects of the identity provider: a short one, and two that differ only
\* after their twelfth character
SubjectShort == <<"a", "b">>
SubjectLongB == <<"8", "f", "3", "a", "2", "b", "1", "c", "9", "d", "4", "e", "b">>
SubjectLongC == <<"8", "f", "3", "a", "2", "b", "1", "c", "9", "d", "4", "e", "c">>
Subjects == {SubjectShort, SubjectLongB, SubjectLongC}

\* app_metadata.provider: absent, or `email`
ProviderTags == {<<>>, EmailTag}

FullNames == {"", "Ann"}

NetlifyUsers ==
  [id : Subjects, provider : ProviderTags, full_name : FullNames,
   email : {"ann@example.org"}]

Builds == {"auth.ts", "part_000"}

\* The id handed out for an external identity
Issued(netlifyUser, profile) ==
  [subject |-> netlifyUser.id, provider |-> netlifyUser.provider, id |-> profile.id]

AuthRecord(op, user, profile) == [op |-> op, user |-> user, profile |-> profile]

notAuthVars ==
  <<localStorage, storageFault, env, quotas, anonRun, apiCall, db, pending, inflight,
    tablesInit, requests>>

\* The widget fires `login` with the user; the listener of signInWithSocial
\* or the one of onAuthStateChange maps it to a profile
Login(netlifyUser) ==
  /\ identity.current = <<>>
  /\ \E listener \in {"signInWithSocial", "onAuthStateChange"} :
       \E profile \in {ProfileOf(identity.build, netlifyUser)} :
         /\ identity' = [identity EXCEPT !.current = <<netlifyUser>>,
                                         !.issued = @ \cup {Issued(netlifyUser, profile)}]
         /\ lastOp' = AuthRecord(listener, <<netlifyUser>>, <<profile>>)
  /\ UNCHANGED notAuthVars

\* authService.getCurrentUser
GetCurrentUser ==
  /\ \E profile \in {getCurrentUser(identity)} :
       /\ identity' = [identity EXCEPT !.issued =
                         IF profile = <<>> THEN @
                         ELSE @ \cup {Issued(identity.current[1], profile[1])}]
       /\ lastOp' = AuthRecord("getCurrentUser", identity.current, profile)
  /\ UNCHANGED notAuthVars

\* authService.logout: the listener of onAuthStateChange is called with null
Logout ==
  /\ identity.current # <<>>
  /\ identity' = [identity EXCEPT !.current = <<>>]
  /\ lastOp' = AuthRecord("logout", <<>>, <<>>)
  /\ UNCHANGED notAuthVars

\* The signed-in user's display name changes at the identity provider
MetadataChanges ==
  /\ identity.current # <<>>
  /\ \E n \in FullNames \ {identity.current[1].full_name} :
       identity' = [identity EXCEPT !.current = <<[@[1] EXCEPT !.full_name = n]>>]
  /\ lastOp' = AuthRecord("metadata", identity.current, <<>>)
  /\ UNCHANGED notAuthVars

InitAuth ==
  /\ localStorage = [k \in {} |-> <<>>]
  /\ storageFault = "none"
  /\ env \in Environments
  /\ quotas = [k \in {} |-> NewRow(0, FALSE, "")]
  /\ anonRun = 0
  /\ apiCall = IdleCall
  /\ db = EmptyDb
  /\ pending = NoPending
  /\ identity \in {[SignedOut EXCEPT !.build = b] : b \in Builds}
  /\ inflight = {}
  /\ tablesInit = ColdStart
  /\ requests = {}
  /\ lastOp = AuthRecord("init", <<>>, <<>>)

NextAuth ==
  \/ \E netlifyUser \in NetlifyUsers : Login(netlifyUser)
  \/ GetCurrentUser
  \/ Logout
  \/ MetadataChanges

SpecAuth == InitAuth /\ [][NextAuth]_vars

\* The provider tag of a build for a user
TagOf(build, netlifyUser) ==
  IF build = "part_000" THEN UserTag
  ELSE IF netlifyUser.provider = <<>> THEN GoogleTag ELSE netlifyUser.provider

\* `id` is the tag, a hyphen and the first twelve characters of the subject
TagThenSubjectPrefix(id, tag, subject) ==
  /\ Len(id) = Len(tag) + 1 + (IF Len(subject) < 12 THEN Len(subject) ELSE 12)
  /\ \A i \in 1..Len(tag) : id[i] = tag[i]
  /\ id[Len(tag) + 1] = "-"
  /\ \A i \in 1..Len(subject) : i <= 12 => id[Len(tag) + 1 + i] = subject[i]

\* C25: every profile that a login, an auth-state callback or getCurrentUser
\* yields has as id the provider tag followed (after a hyphen) by the first 12
\* characters of the subject, and all ids handed out for one external identity
\* (subject and provider) are the same, whatever the display name was and
\* whoever was signed in before.
C25_StableIdFromSubjectAndProvider ==
  /\ \A a, b \in identity.issued :
       (a.subject = b.subject /\ a.provider = b.provider) => a.id = b.id
  /\ lastOp.profile # <<>>
       => /\ TagThenSubjectPrefix(lastOp.profile[1].id,
                                  TagOf(identity.build, lastOp.user[1]), lastOp.user[1].id)
          /\ Issued(lastOp.user[1], lastOp.profile[1]) \in identity.issued

\* getCurrentUser answered for a subject longer than twelve characters that
\* has no display name, after two other identities had been given ids
C25_Witness ==
  /\ lastOp.op = "getCurrentUser"
  /\ lastOp.profile # <<>>
  /\ Len(lastOp.user[1].id) > 12
  /\ lastOp.profile[1].name = "ann"
  /\ Cardinality(identity.issued) = 3

\* ------------------------------------------------------------------------
\* Quota operations as tasks of one event loop.  An operation runs without
\* interruption up to its `await callApi(...)`; other operations may run until
\* the call resolves and the operation resumes.  The backend handles a
\* request at some moment between the two.
\* ------------------------------------------------------------------------

\* Mutant: a signed-in user's local increment is left to the backend
incrementQuota_beforeAwait_RemoteOnly(userId, ls, fault) ==
  IF userId # NoUser THEN ls ELSE incrementLocalQuotaCount(ls, fault)

\* db.incrementQuota up to its await (part_001:211-214): the local counter is
\* read and written in this one task
incrementQuota_beforeAwait(userId, ls, fault) == incrementLocalQuotaCount(ls, fault)

\* db.syncQuotaOnLogin after its await (part_001:228-239): the local storage
\* it leaves; it throws on a result without usedGenerations
syncQuotaOnLogin_afterAwait(result, ls, fault) ==
  IF Truthy(result) /\ "usedGenerations" \in DOMAIN result.v
  THEN StorageSet(ls, fault, LS_KEYS.QUOTA, ToString(result.v.usedGenerations))
  ELSE ls

\* The bounds of a run: operations started, and the counter at the start
MaxOps == 3
MaxBase == 1

\* A remote call in flight: the operation that awaits it, the count it read
\* before, whether the backend has answered and with what, and whether an
\* incrementQuota ran since the operation began to wait
Call(id, op, userId, localCount) ==
  [id |-> id, op |-> op, userId |-> userId, localCount |-> localCount,
   stage |-> "sent", data |-> JNull, overtaken |-> FALSE]

\* What is recorded of a run: the step taken last, the local counter before
\* and after it, the counter at the start, the operations and the
\* incrementQuota calls started, the most incrementQuota calls that were in
\* flight together, the writes made by resumed syncs, and for a resumed sync
\* whether it wrote and whether it was overtaken by an incrementQuota
TaskRecord(step, calls, after, wrote, overtaken, incs, syncWrites) ==
  [step |-> step, before |-> StoredCount, after |-> after, base |-> lastOp.base,
   ops |-> IF step \in {"incrementQuota", "syncQuotaOnLogin"} THEN lastOp.ops + 1
           ELSE lastOp.ops,
   incs |-> incs, syncWrites |-> syncWrites,
   peak |-> LET n == Cardinality({c \in calls : c.op = "incrementQuota"})
            IN IF n > lastOp.peak THEN n ELSE lastOp.peak,
   wrote |-> wrote, overtaken |-> overtaken]

notTaskVars ==
  <<storageFault, env, anonRun, apiCall, db, pending, identity, tablesInit, requests>>

\* incrementQuota(userId) runs up to its await; without a userId it is over
IncrementQuotaStarts(userId) ==
  /\ lastOp.ops < MaxOps
  /\ localStorage' = incrementQuota_beforeAwait(userId, localStorage, storageFault)
  /\ inflight' = {[c EXCEPT !.overtaken = TRUE] : c \in inflight}
                   \cup (IF userId # NoUser
                         THEN {Call(lastOp.ops + 1, "incrementQuota", userId, 0)}
                         ELSE {})
  /\ lastOp' = TaskRecord("incrementQuota", inflight',
                          getLocalQuotaCount(localStorage', "none"),
                          FALSE, FALSE, lastOp.incs + 1, lastOp.syncWrites)
  /\ UNCHANGED <<quotas, notTaskVars>>

\* syncQuotaOnLogin(userId) reads the local counter and sends it
SyncQuotaStarts(userId) ==
  /\ lastOp.ops < MaxOps
  /\ inflight' = inflight \cup {Call(lastOp.ops + 1, "syncQuotaOnLogin", userId,
                                     getLocalQuotaCount(localStorage, storageFault))}
  /\ lastOp' = TaskRecord("syncQuotaOnLogin", inflight', StoredCount, FALSE, FALSE,
                          lastOp.incs, lastOp.syncWrites)
  /\ UNCHANGED <<localStorage, quotas, notTaskVars>>

\* The request a call sent
RequestOf(c) ==
  IF c.op = "incrementQuota" THEN [action |-> "increment-quota", payload |-> [userId |-> c.userId]]
  ELSE [action |-> "sync-quota",
        payload |-> [userId |-> c.userId, localCount |-> c.localCount]]

\* The backend handles the request of a call; its response is on its way
BackendHandles(c) ==
  /\ c.stage = "sent"
  /\ \E dbFail \in BOOLEAN :
       \E h \in {handler(RequestOf(c).action, RequestOf(c).payload, env, quotas, dbFail)} :
         /\ quotas' = h.quotas
         /\ inflight' = (inflight \ {c}) \cup
              {[c EXCEPT !.stage = "answered",
                         !.data = ResponseData(h.statusCode, "application/json", h.body)]}
  /\ lastOp' = TaskRecord("handled", inflight, StoredCount, FALSE, FALSE,
                          lastOp.incs, lastOp.syncWrites)
  /\ UNCHANGED <<localStorage, notTaskVars>>

\* callApi resolves and the operation resumes: with the data of the response
\* when one has arrived, with null when the request or the response was lost
CallResolves(c) ==
  /\ \E result \in {JNull} \cup (IF c.stage = "answered" THEN {c.data} ELSE {}) :
       /\ localStorage' = IF c.op = "syncQuotaOnLogin"
                          THEN syncQuotaOnLogin_afterAwait(result, localStorage, storageFault)
                          ELSE localStorage
       /\ lastOp' = LET wrote == /\ c.op = "syncQuotaOnLogin"
                                 /\ Truthy(result)
                                 /\ "usedGenerations" \in DOMAIN result.v
                    IN TaskRecord(IF c.op = "syncQuotaOnLogin" THEN "syncQuotaOnLogin:resumed"
                                  ELSE "incrementQuota:resumed",
                                  inflight \ {c},
                                  getLocalQuotaCount(localStorage', "none"),
                                  wrote, c.overtaken, lastOp.incs,
                                  IF wrote THEN lastOp.syncWrites + 1 ELSE lastOp.syncWrites)
  /\ inflight' = inflight \ {c}
  /\ UNCHANGED <<quotas, notTaskVars>>

InitTasks ==
  /\ \E base \in 0..MaxBase :
       /\ localStorage = (IF base = 0 THEN [k \in {} |-> <<>>]
                          ELSE [k \in {LS_KEYS.QUOTA} |-> ToString(base)])
       /\ lastOp = [step |-> "init", before |-> base, after |-> base, base |-> base,
                    ops |-> 0, incs |-> 0, syncWrites |-> 0, peak |-> 0,
                    wrote |-> FALSE, overtaken |-> FALSE]
  /\ storageFault = "none"
  /\ env \in Environments
  /\ quotas = [k \in {} |-> NewRow(0, FALSE, "")]
  /\ anonRun = 0
  /\ apiCall = IdleCall
  /\ db = EmptyDb
  /\ pending = NoPending
  /\ ProcessInit

NextTasks ==
  \/ \E userId \in Users \cup {NoUser} : IncrementQuotaStarts(userId)
  \/ \E userId \in Users : SyncQuotaStarts(userId)
  \/ \E c \in inflight : BackendHandles(c)
  \/ \E c \in inflight : CallResolves(c)

SpecTasks == InitTasks /\ [][NextTasks]_vars

\* C26: as long as no resumed syncQuotaOnLogin has written the counter, the
\* local counter is the counter at the start plus the number of
\* incrementQuota calls started, however many of them are in flight and in
\* whatever order their calls are handled and resolve (storage working).
C26_ConcurrentIncrementsAllCount ==
  lastOp.syncWrites = 0 => StoredCount = lastOp.base + lastOp.incs

\* Three incrementQuota calls were in flight together and all have resolved
C26_Witness ==
  /\ inflight = {}
  /\ lastOp.syncWrites = 0
  /\ lastOp.peak >= 3
  /\ lastOp.incs >= 3
  /\ StoredCount = lastOp.base + lastOp.incs

\* C30: when a syncQuotaOnLogin resumes and writes the local counter after an
\* incrementQuota ran while it waited, the counter after the write is not
\* smaller than the counter before it.
C30_SyncWriteNeverLowersCounter ==
  (lastOp.step = "syncQuotaOnLogin:resumed" /\ lastOp.wrote /\ lastOp.overtaken)
    => lastOp.after >= lastOp.before

\* ------------------------------------------------------------------------
\* Backend: cached table initialization (api.ts:51-73).  Promises are
\* numbered in the order they are created; 0 is null.
\* ------------------------------------------------------------------------

\* Mutant: the cached promise is reused only once it has resolved
ensureTables_ReusesWhenDone(t) ==
  IF t.cache # 0 /\ t.status[t.cache] = "fulfilled"
  THEN [promise |-> t.cache,
        tablesInit |-> [t EXCEPT !.served[t.cache] = @ + 1]]
  ELSE LET p == Len(t.status) + 1
       IN [promise |-> p,
           tablesInit |-> [cache |-> p, status |-> Append(t.status, "pending"),
                           served |-> Append(t.served, 1)]]

\* ensureTables(sql): the promise the caller gets and the process state; a
\* new promise means the six CREATE TABLE statements were issued
ensureTables(t) ==
  IF t.cache # 0
  THEN [promise |-> t.cache,
        tablesInit |-> [t EXCEPT !.served[t.cache] = @ + 1]]
  ELSE LET p == Len(t.status) + 1
       IN [promise |-> p,
           tablesInit |-> [cache |-> p, status |-> Append(t.status, "pending"),
                           served |-> Append(t.served, 1)]]

\* All six statements succeeded: Promise.all fulfils
initFulfilled(t, p) == [t EXCEPT !.status[p] = "fulfilled"]

\* A statement failed: the catch handler clears the cache and the promise the
\* callers hold resolves (to undefined)
initRejected(t, p) == [t EXCEPT !.status[p] = "failed", !.cache = 0]

\* The bounds of a run: initializations started, calls of ensureTables
MaxInits == 3
MaxCalls == 7

InitRecord(op, promise) ==
  [op |-> op, promise |-> promise, before |-> tablesInit,
   calls |-> IF op = "ensureTables" THEN lastOp.calls + 1 ELSE lastOp.calls]

notInitVars ==
  <<localStorage, storageFault, env, quotas, anonRun, apiCall, db, pending, identity,
    inflight, requests>>

\* A request handler calls ensureTables
EnsureTables ==
  /\ lastOp.calls < MaxCalls
  /\ tablesInit.cache = 0 => Len(tablesInit.status) < MaxInits
  /\ \E out \in {ensureTables(tablesInit)} :
       /\ tablesInit' = out.tablesInit
       /\ lastOp' = InitRecord("ensureTables", out.promise)
  /\ UNCHANGED notInitVars

\* The statements of a pending initialization all succeeded
InitSucceeds(p) ==
  /\ tablesInit.status[p] = "pending"
  /\ tablesInit' = initFulfilled(tablesInit, p)
  /\ lastOp' = InitRecord("fulfilled", p)
  /\ UNCHANGED notInitVars

\* A statement of a pending initialization failed
InitFails(p) ==
  /\ tablesInit.status[p] = "pending"
  /\ tablesInit' = initRejected(tablesInit, p)
  /\ lastOp' = InitRecord("failed", p)
  /\ UNCHANGED notInitVars

InitBackend ==
  /\ localStorage = [k \in {} |-> <<>>]
  /\ storageFault = "none"
  /\ env \in {e \in Environments : e.sql}
  /\ quotas = [k \in {} |-> NewRow(0, FALSE, "")]
  /\ anonRun = 0
  /\ apiCall = IdleCall
  /\ db = EmptyDb
  /\ pending = NoPending
  /\ ProcessInit
  /\ lastOp = [op |-> "init", promise |-> 0, before |-> ColdStart, calls |-> 0]

NextBackend ==
  \/ EnsureTables
  \/ \E p \in 1..Len(tablesInit.status) : InitSucceeds(p)
  \/ \E p \in 1..Len(tablesInit.status) : InitFails(p)

SpecBackend == InitBackend /\ [][NextBackend]_vars

\* The initializations of a process state that ended in a given way
InitsWith(t, status) == {p \in 1..Len(t.status) : t.status[p] = status}

\* C27: while an initialization is pending or has succeeded, a call of
\* ensureTables returns the cached promise and issues no statements; the
\* statements are issued once more only per initialization that failed; the
\* cache is empty only when no initialization was started or every one
\* started has failed, and then the next call starts a new one.
C27_FirstCallersShareOneInitialization ==
  /\ lastOp.op = "ensureTables"
       => IF lastOp.before.cache # 0
          THEN /\ lastOp.before.status[lastOp.before.cache] \in {"pending", "fulfilled"}
               /\ lastOp.promise = lastOp.before.cache
               /\ Len(tablesInit.status) = Len(lastOp.before.status)
          ELSE /\ Len(tablesInit.status) = Len(lastOp.before.status) + 1
               /\ lastOp.promise = Len(tablesInit.status)
               /\ tablesInit.cache = lastOp.promise
  /\ Len(tablesInit.status) <= Cardinality(InitsWith(tablesInit, "failed")) + 1
  /\ tablesInit.cache = 0
       <=> Len(tablesInit.status) = Cardinality(InitsWith(tablesInit, "failed"))

\* Three callers share the second initialization, started after the first
\* one failed, while it is pending
C27_Witness ==
  /\ lastOp.op = "ensureTables"
  /\ Len(tablesInit.status) = 2
  /\ tablesInit.status[1] = "failed"
  /\ tablesInit.status[2] = "pending"
  /\ tablesInit.served[2] = 3
  /\ lastOp.promise = 2

\* ------------------------------------------------------------------------
\* Specification of an anonymous visitor: nobody is signed in, the storage
\* works and the counter starts at 0; the quota operations are called without
\* a userId, and history and profiles are read and written in between
\* ------------------------------------------------------------------------

\* incrementQuota calls of a run
MaxAnonymousIncrements == 11

AnonymousItem == [id |-> 1, timestamp |-> 1]
AnonymousProfile == [id |-> 1, name |-> "Alpha"]

\* What is recorded of a run: the operation that ran last and its value, the
\* incrementQuota calls made, and whether canGenerate has returned false
AnonymousRecord(op, value, incs) ==
  [op |-> op, value |-> value, incs |-> incs,
   denied |-> lastOp.denied \/ (op = "canGenerate" /\ value = JBool(FALSE))]

notAnonymousVars == <<storageFault, env, quotas, anonRun, apiCall, pending, processVars>>

AnonymousGetQuota ==
  /\ \E net \in Outcomes(NoUser) :
       \E out \in {getQuota(NoUser, localStorage, storageFault, net, env, quotas)} :
         /\ localStorage' = out.localStorage
         /\ lastOp' = AnonymousRecord("getQuota", out.value, lastOp.incs)
  /\ UNCHANGED <<db, notAnonymousVars>>

AnonymousCanGenerate ==
  /\ \E net \in Outcomes(NoUser) :
       \E out \in {canGenerate(NoUser, localStorage, storageFault, net, env, quotas)} :
         /\ localStorage' = out.localStorage
         /\ lastOp' = AnonymousRecord("canGenerate", out.value, lastOp.incs)
  /\ UNCHANGED <<db, notAnonymousVars>>

AnonymousIncrementQuota ==
  /\ lastOp.incs < MaxAnonymousIncrements
  /\ \E net \in Outcomes(NoUser) :
       \E out \in {incrementQuota(NoUser, localStorage, storageFault, net, env, quotas)} :
         /\ localStorage' = out.localStorage
         /\ lastOp' = AnonymousRecord("incrementQuota", out.value, lastOp.incs + 1)
  /\ UNCHANGED <<db, notAnonymousVars>>

\* saveHistoryItem, saveProfile or deleteProfile, from its local-store step
\* to the end of its call
AnonymousWrite(op, arg) ==
  /\ \E net \in HistoryOutcomes :
       \E c \in {callEntityApi(SaveAction(op), SavePayload(op, arg), net, "asc", env, db)} :
         /\ localStorage' = SaveSettled(LocalStep(op, localStorage, storageFault, arg),
                                        localStorage, c)
         /\ db' = c.db
  /\ lastOp' = AnonymousRecord(op, JUndefined, lastOp.incs)
  /\ UNCHANGED notAnonymousVars

\* getHistory or getProfiles
AnonymousRead(op) ==
  /\ \E net \in HistoryOutcomes :
       \E out \in {IF op = "getHistory"
                   THEN getHistory(localStorage, storageFault, net, "asc", env, db)
                   ELSE getProfiles(localStorage, storageFault, net, "asc", env, db)} :
         /\ localStorage' = out.localStorage
         /\ db' = out.call.db
  /\ lastOp' = AnonymousRecord(op, JUndefined, lastOp.incs)
  /\ UNCHANGED notAnonymousVars

InitAnonymous ==
  /\ localStorage = [k \in {} |-> <<>>]
  /\ storageFault = "none"
  /\ env \in Environments
  /\ quotas = [k \in {} |-> NewRow(0, FALSE, "")]
  /\ anonRun = 0
  /\ apiCall = IdleCall
  /\ db = EmptyDb
  /\ pending = NoPending
  /\ ProcessInit
  /\ lastOp = [op |-> "init", value |-> JUndefined, incs |-> 0, denied |-> FALSE]

NextAnonymous ==
  \/ AnonymousGetQuota
  \/ AnonymousCanGenerate
  \/ AnonymousIncrementQuota
  \/ AnonymousWrite("saveHistoryItem", AnonymousItem)
  \/ AnonymousWrite("saveProfile", AnonymousProfile)
  \/ AnonymousWrite("deleteProfile", AnonymousProfile.id)
  \/ AnonymousRead("getHistory")
  \/ AnonymousRead("getProfiles")

SpecAnonymous == InitAnonymous /\ [][NextAnonymous]_vars

\* C28: for an anonymous visitor canGenerate() returns true when fewer than
\* 10 incrementQuota calls have been made and false otherwise, and once it
\* has returned false the local counter is at the limit or above in every
\* later state, whatever quota, history or profile operation ran.
C28_AnonymousGateClosesAtLimit ==
  /\ lastOp.op = "canGenerate"
       => lastOp.value = JBool(lastOp.incs < FREE_GENERATION_LIMIT)
  /\ lastOp.denied => StoredCount >= FREE_GENERATION_LIMIT

\* canGenerate is false after the eleventh increment, with history and
\* profiles written in between
C28_Witness ==
  /\ lastOp.op = "canGenerate"
  /\ lastOp.value = JBool(FALSE)
  /\ lastOp.incs = 11
  /\ LS_KEYS.HISTORY \in DOMAIN localStorage
  /\ LS_KEYS.PROFILES \in DOMAIN localStorage

\* ------------------------------------------------------------------------
\* Specification of the stored counter: the quota key starts absent or with
\* a string put there by someone else; the counter is read, incremented and
\* synchronised, and the storage starts and stops failing
\* ------------------------------------------------------------------------

\* The largest count a run stores
MaxStored == 3

\* Strings found under the quota key that the data layer did not write: the
\* empty string, text, digits followed by text, a negative number, a number
\* after a blank, a number
ForeignStrings ==
  {<<>>, <<"a", "b", "c">>, <<"1", "2", "a", "b", "c">>, <<"-", "5">>, <<" ", "2">>,
   <<"2">>}

\* The integer parseInt reads from each of them, where it reads one
ForeignInteger(s) ==
  CASE s = <<"1", "2", "a", "b", "c">> -> 12
    [] s = <<"-", "5">> -> -5
    [] s = <<" ", "2">> -> 2
    [] s = <<"2">> -> 2
    [] OTHER -> 0

CounterRecord(op, value) ==
  [op |-> op, start |-> lastOp.start, stored |-> Mirror(localStorage, LS_KEYS.QUOTA),
   fault |-> storageFault, value |-> value]

notCounterVars == <<env, anonRun, entityVars>>

\* db.getLocalQuotaCount is called
ReadLocalQuotaCount ==
  /\ lastOp' = CounterRecord("getLocalQuotaCount",
                             getLocalQuotaCount(localStorage, storageFault))
  /\ UNCHANGED <<localStorage, storageFault, quotas, notCounterVars>>

CounterIncrementQuota(userId) ==
  /\ StoredCount < MaxStored
  /\ userId # NoUser => RemoteCount(quotas, userId) < MaxStored
  /\ \E net \in Outcomes(userId) :
       \E out \in {incrementQuota(userId, localStorage, storageFault, net, env, quotas)} :
         /\ localStorage' = out.localStorage
         /\ quotas' = out.call.quotas
  /\ lastOp' = CounterRecord("incrementQuota", 0)
  /\ UNCHANGED <<storageFault, notCounterVars>>

CounterSyncQuotaOnLogin(userId) ==
  /\ \E net \in NetOutcomes :
       \E out \in {syncQuotaOnLogin(userId, localStorage, storageFault, net, env, quotas)} :
         /\ localStorage' = out.localStorage
         /\ quotas' = out.call.quotas
  /\ lastOp' = CounterRecord("syncQuotaOnLogin", 0)
  /\ UNCHANGED <<storageFault, notCounterVars>>

CounterStorageFaultChanges ==
  /\ \E f \in StorageFaults :
       /\ f # storageFault
       /\ storageFault' = f
  /\ lastOp' = CounterRecord("storage-fault", 0)
  /\ UNCHANGED <<localStorage, quotas, notCounterVars>>

InitCounter ==
  /\ \E start \in {Nothing} \cup {Some(s) : s \in ForeignStrings} :
       /\ localStorage = (IF start = Nothing THEN [k \in {} |-> <<>>]
                          ELSE [k \in {LS_KEYS.QUOTA} |-> start[1]])
       /\ lastOp = [op |-> "init", start |-> start, stored |-> start, fault |-> "none",
                    value |-> 0]
  /\ storageFault = "none"
  /\ env \in Environments
  /\ quotas = [k \in {} |-> NewRow(0, FALSE, "")]
  /\ anonRun = 0
  /\ apiCall = IdleCall
  /\ db = EmptyDb
  /\ pending = NoPending
  /\ ProcessInit

NextCounter ==
  \/ ReadLocalQuotaCount
  \/ \E userId \in Users \cup {NoUser} : CounterIncrementQuota(userId)
  \/ \E userId \in Users : CounterSyncQuotaOnLogin(userId)
  \/ CounterStorageFaultChanges

SpecCounter == InitCounter /\ [][NextCounter]_vars

\* The quota key holds the decimal text of a count
HoldsCount(ls) ==
  \E n \in 0..MaxStored : Mirror(ls, LS_KEYS.QUOTA) = Some(ToString(n))

\* The integers a run may store: from the least a foreign string denotes to
\* the greatest, or to the cap of the run
CountsStored ==
  LET known == {ForeignInteger(s) : s \in ForeignStrings} \cup {MaxStored}
  IN (CHOOSE lo \in known : \A k \in known : lo <= k)
       ..(CHOOSE hi \in known : \A k \in known : hi >= k)

\* C29: getLocalQuotaCount returns 0 when the storage cannot be read, when
\* the key is absent and when the key holds the empty string or text
\* parseInt reads no integer from; it returns the integer stored otherwise
\* (for digits followed by text: the integer the digits denote).  In every
\* state of a run that started with the key absent, the key is absent or
\* holds the decimal text of a non-negative integer.
C29_LocalCountDefaultsToZero ==
  /\ lastOp.op = "getLocalQuotaCount"
       => IF lastOp.fault = "all" \/ lastOp.stored = Nothing THEN lastOp.value = 0
          ELSE IF lastOp.stored[1] \in ForeignStrings
          THEN lastOp.value = ForeignInteger(lastOp.stored[1])
          ELSE \E n \in CountsStored :
                 lastOp.stored[1] = ToString(n) /\ lastOp.value = n
  /\ lastOp.start = Nothing
       => (LS_KEYS.QUOTA \in DOMAIN localStorage => HoldsCount(localStorage))

\* The counter was read as 2 while the backend's record holds 3, in a run
\* that started with the key absent
C29_Witness ==
  /\ lastOp.op = "getLocalQuotaCount"
  /\ lastOp.start = Nothing
  /\ lastOp.fault = "none"
  /\ lastOp.value = 2
  /\ RemoteCount(quotas, "user-a") = 3


\* ------------------------------------------------------------------------
\* Backend: quota requests handled concurrently (api.ts:230-267).  Every
\* awaited sql`...` is one statement sent to the database on its own; the
\* handler opens no transaction, so statements of other requests run between
\* the SELECT of sync-quota and its INSERT or UPDATE.
\* ------------------------------------------------------------------------

MaxSyncs == 2
MaxSqlCount == 3

\* sync-quota, first statement: SELECT used_generations, is_premium ... LIMIT 1
SyncQuotaSelect(payload, q) ==
  IF HasRow(q, payload.userId)
  THEN <<[used_generations |-> q[payload.userId].used_generations,
          is_premium |-> q[payload.userId].is_premium]>>
  ELSE <<>>

\* sync-quota, from the rows its SELECT returned: the INSERT (which fails on
\* the primary key when the row exists by now) or the UPDATE (which changes
\* no row when there is none)
SyncQuotaWrite(payload, rows, q) ==
  IF Len(rows) = 0
  THEN IF HasRow(q, payload.userId) THEN Threw(q)
       ELSE Done(QuotaJson(payload.localCount, FALSE),
                 InsertRow(q, payload.userId, NewRow(payload.localCount, FALSE, "")))
  ELSE LET dbCount == rows[1].used_generations
           isPremium == rows[1].is_premium = TRUE
           finalCount == Max(dbCount, payload.localCount)
       IN Done(QuotaJson(finalCount, isPremium),
               IF finalCount > dbCount /\ HasRow(q, payload.userId)
               THEN [q EXCEPT ![payload.userId].used_generations = finalCount]
               ELSE q)

SqlRecord(step, userId, q, threw) ==
  [step |-> step, userId |-> userId, before |-> RemoteCount(quotas, userId),
   after |-> RemoteCount(q, userId), threw |-> threw,
   syncs |-> lastOp.syncs + (IF step = "sync-quota:select" THEN 1 ELSE 0)]

notSqlVars ==
  <<localStorage, storageFault, env, anonRun, apiCall, db, pending, identity, inflight,
    tablesInit>>

\* An increment-quota request runs its one statement
IncrementQuotaRequest(userId) ==
  /\ env.sql
  /\ RemoteCount(quotas, userId) < MaxSqlCount
  /\ \E c \in {IncrementQuotaCase([userId |-> userId], env.sql, quotas, FALSE)} :
       /\ quotas' = c.quotas
       /\ lastOp' = SqlRecord("increment-quota", userId, c.quotas, c.threw)
  /\ UNCHANGED <<requests, notSqlVars>>

\* A sync-quota request runs its SELECT and awaits the answer
SyncQuotaSelects(userId, localCount) ==
  /\ env.sql
  /\ lastOp.syncs < MaxSyncs
  /\ \E id \in 1..MaxSyncs :
       /\ \A r \in requests : r.id # id
       /\ requests' = requests \cup
            {[id |-> id, payload |-> [userId |-> userId, localCount |-> localCount],
              rows |-> SyncQuotaSelect([userId |-> userId, localCount |-> localCount],
                                       quotas)]}
  /\ lastOp' = SqlRecord("sync-quota:select", userId, quotas, FALSE)
  /\ UNCHANGED <<quotas, notSqlVars>>

\* A sync-quota request resumes with its rows and runs its second statement
SyncQuotaWrites(r) ==
  /\ \E c \in {SyncQuotaWrite(r.payload, r.rows, quotas)} :
       /\ quotas' = c.quotas
       /\ lastOp' = SqlRecord("sync-quota:write", r.payload.userId, c.quotas, c.threw)
  /\ requests' = requests \ {r}
  /\ UNCHANGED notSqlVars

InitSql ==
  /\ localStorage = [k \in {} |-> <<>>]
  /\ storageFault = "none"
  /\ env \in {e \in Environments : e.sql}
  /\ quotas \in {[k \in {} |-> NewRow(0, FALSE, "")],
                 [k \in {"user-a"} |-> NewRow(0, FALSE, "")],
                 [k \in {"user-a"} |-> NewRow(1, TRUE, "sub-1")]}
  /\ lastOp = [step |-> "init", userId |-> NoUser, before |-> 0, after |-> 0,
               threw |-> FALSE, syncs |-> 0]
  /\ anonRun = 0
  /\ apiCall = IdleCall
  /\ db = EmptyDb
  /\ pending = NoPending
  /\ ProcessInit

NextSql ==
  \/ \E userId \in Users : IncrementQuotaRequest(userId)
  \/ \E userId \in Users, localCount \in 0..MaxSqlCount : SyncQuotaSelects(userId, localCount)
  \/ \E r \in requests : SyncQuotaWrites(r)

SpecSql == InitSql /\ [][NextSql]_vars

\* C31: no step of the backend lowers the stored used_generations of a user,
\* however the statements of concurrent sync-quota and increment-quota
\* requests interleave
C31_BackendCountNeverDecreases ==
  [][\A userId \in Users : RemoteCount(quotas', userId) >= RemoteCount(quotas, userId)]_vars


\* ------------------------------------------------------------------------
\* One browser used by several identities in turn.  The quota key
\* LS_KEYS.QUOTA is one key of the browser's storage: no operation of the
\* data layer or of the identity service removes it or keys it by identity.
\* ------------------------------------------------------------------------

MaxRecorded == 2

Identities == {"user-a", "user-b"}

\* The generations recorded on this client so far, by who was signed in
NoneRecorded == [u \in Identities \cup {NoUser} |-> 0]

Attributed(op, userId) ==
  IF op = "incrementQuota" THEN [lastOp.recorded EXCEPT ![userId] = @ + 1]
  ELSE lastOp.recorded

IdentityRecord(op, userId, out) ==
  [op |-> op, userId |-> userId, recorded |-> Attributed(op, userId),
   sent |-> out.call.requests, synced |-> ~out.raised /\ Truthy(out.call.data)]

notIdentityVars == <<storageFault, env, anonRun, entityVars>>

\* A generation succeeded while userId (or nobody) was signed in
IdentityIncrementQuota(userId) ==
  /\ lastOp.recorded[NoUser] + lastOp.recorded["user-a"] + lastOp.recorded["user-b"]
       < MaxRecorded
  /\ \E net \in Outcomes(userId) :
       \E out \in {incrementQuota(userId, localStorage, storageFault, net, env, quotas)} :
         /\ localStorage' = out.localStorage
         /\ quotas' = out.call.quotas
         /\ lastOp' = IdentityRecord("incrementQuota", userId, out)
  /\ UNCHANGED notIdentityVars

\* userId signed in and the counts are reconciled
IdentitySyncQuotaOnLogin(userId) ==
  /\ \E net \in NetOutcomes :
       \E out \in {syncQuotaOnLogin(userId, localStorage, storageFault, net, env, quotas)} :
         /\ localStorage' = out.localStorage
         /\ quotas' = out.call.quotas
         /\ lastOp' = IdentityRecord("syncQuotaOnLogin", userId, out)
  /\ UNCHANGED notIdentityVars

InitIdentities ==
  /\ localStorage = [k \in {} |-> <<>>]
  /\ storageFault = "none"
  /\ env \in Environments
  /\ quotas = [k \in {} |-> NewRow(0, FALSE, "")]
  /\ lastOp = [op |-> "init", userId |-> NoUser, recorded |-> NoneRecorded,
               sent |-> <<>>, synced |-> FALSE]
  /\ anonRun = 0
  /\ apiCall = IdleCall
  /\ db = EmptyDb
  /\ pending = NoPending
  /\ ProcessInit

NextIdentities ==
  \/ \E userId \in Identities \cup {NoUser} : IdentityIncrementQuota(userId)
  \/ \E userId \in Identities : IdentitySyncQuotaOnLogin(userId)

SpecIdentities == InitIdentities /\ [][NextIdentities]_vars

\* C32: once syncQuotaOnLogin(B) got the backend's record, the count stored
\* for B is at most the generations recorded on this client anonymously and
\* while B was signed in
C32_UsageAttributedPerIdentity ==
  (lastOp.op = "syncQuotaOnLogin" /\ lastOp.synced)
    => RemoteCount(quotas, lastOp.userId)
         <= lastOp.recorded[NoUser] + lastOp.recorded[lastOp.userId]


\* ------------------------------------------------------------------------
\* Two clients and one backend.  The tables of the backend hold no owner
\* column and get-history takes no argument (api.ts:177-188): every client
\* reads and writes the same hypeakz_history.  `localStorage` is the storage
\* of this client; the other client is seen through the requests the
\* backend handles for it.
\* ------------------------------------------------------------------------

OwnItems == {[id |-> 1, timestamp |-> 1], [id |-> 2, timestamp |-> 3]}
OtherItems == {[id |-> 3, timestamp |-> 2], [id |-> 1, timestamp |-> 4]}

ItemsOf(list) == {list[i] : i \in 1..Len(list)}

ClientRecord(op, arg, value, saved) ==
  [op |-> op, arg |-> arg, value |-> value, saved |-> saved]

notClientVars == <<storageFault, env, pending, quotas, anonRun, apiCall, processVars>>

\* db.saveHistoryItem on this client, from its local-store step to the end
\* of its call
ClientSaveHistoryItem(item) ==
  /\ \E net \in HistoryOutcomes :
       \E ls1 \in {localStore_saveHistoryItem(localStorage, storageFault, item)},
          c \in {callEntityApi("save-history", item, net, "asc", env, db)} :
         /\ localStorage' = SaveSettled(ls1, localStorage, c)
         /\ db' = c.db
  /\ lastOp' = ClientRecord("saveHistoryItem", item, JUndefined, lastOp.saved \cup {item})
  /\ UNCHANGED notClientVars

\* The backend handles the save-history request of another client
OtherClientSaveHistoryItem(item) ==
  /\ \E h \in {entityHandler("save-history", item, env, db, FALSE, "asc")} :
       db' = h.db
  /\ lastOp' = ClientRecord("other:saveHistoryItem", item, JUndefined, lastOp.saved)
  /\ UNCHANGED <<localStorage, notClientVars>>

\* db.getHistory on this client
ClientGetHistory ==
  /\ \E net \in HistoryOutcomes, tie \in Ties :
       \E out \in {getHistory(localStorage, storageFault, net, tie, env, db)} :
         /\ localStorage' = out.localStorage
         /\ db' = out.call.db
         /\ lastOp' = ClientRecord("getHistory", <<>>, out.value, lastOp.saved)
  /\ UNCHANGED notClientVars

InitClients ==
  /\ localStorage = [k \in {} |-> <<>>]
  /\ storageFault \in {"none", "write"}
  /\ env \in Environments
  /\ quotas = [k \in {} |-> NewRow(0, FALSE, "")]
  /\ lastOp = [op |-> "init", arg |-> <<>>, value |-> JUndefined, saved |-> {}]
  /\ anonRun = 0
  /\ apiCall = IdleCall
  /\ db = EmptyDb
  /\ pending = NoPending
  /\ ProcessInit

NextClients ==
  \/ \E item \in OwnItems : ClientSaveHistoryItem(item)
  \/ \E item \in OtherItems : OtherClientSaveHistoryItem(item)
  \/ ClientGetHistory

SpecClients == InitClients /\ [][NextClients]_vars

\* C33: the list getHistory returns on this client, and the local history
\* snapshot it leaves, hold only items this client saved
C33_HistoryIsolatedBetweenClients ==
  lastOp.op = "getHistory"
    => /\ ItemsOf(lastOp.value.v) \subseteq lastOp.saved
       /\ ItemsOf(HistoryOf(localStorage)) \subseteq lastOp.saved


\* ------------------------------------------------------------------------
\* Identity service: signInWithSocial (auth.ts:77-122) and openLogin
\* (part_000:72-113).  The widget calls the listeners registered for an
\* event when it emits the event; `identity` holds the widget (its current
\* user, whether its modal is open) and the promises handed out, each with
\* the listeners it still has registered.
\* ------------------------------------------------------------------------

MaxSignIns == 2

NotAvailable == "Netlify Identity not available"
Cancelled == "Authentication cancelled"

\* The promise of one call: its state, what it was resolved or rejected
\* with, how often resolve or reject was called, the listeners the call has
\* registered, and whether the modal was closed since the call opened it
PendingPromise ==
  [state |-> "pending", profile |-> <<>>, error |-> "", settleCalls |-> 0,
   listeners |-> {"login", "close"}, closed |-> FALSE]

RejectedAtOnce ==
  [state |-> "rejected", profile |-> <<>>, error |-> NotAvailable, settleCalls |-> 1,
   listeners |-> {}, closed |-> FALSE]

\* resolve(profile) / reject(new Error(message)): only the first call settles
Resolve(p, profile) ==
  [p EXCEPT !.state = IF p.state = "pending" THEN "resolved" ELSE @,
            !.profile = IF p.state = "pending" THEN <<profile>> ELSE @,
            !.settleCalls = @ + 1]

Reject(p, message) ==
  [p EXCEPT !.state = IF p.state = "pending" THEN "rejected" ELSE @,
            !.error = IF p.state = "pending" THEN message ELSE @,
            !.settleCalls = @ + 1]

\* onLogin(user), called with the user the widget signed in (<<>>: undefined)
onLogin(p, build, user) ==
  IF user # <<>>
  THEN [Resolve(p, ProfileOf(build, user[1])) EXCEPT !.listeners = {}]
  ELSE p

\* onClose(): `current` is window.netlifyIdentity.currentUser()
onClose(p, current) ==
  IF current = <<>>
  THEN [Reject(p, Cancelled) EXCEPT !.listeners = {}]
  ELSE p

\* netlifyIdentity emits `event`: every promise with a listener for it has
\* the listener called
Emit(promises, event, build, user, current) ==
  [i \in DOMAIN promises |->
     IF event \notin promises[i].listeners THEN promises[i]
     ELSE IF event = "login" THEN onLogin(promises[i], build, user)
     ELSE onClose(promises[i], current)]

\* The users who sign in: one identity under two display names
SignInUsers == {u \in NetlifyUsers : u.id = SubjectShort /\ u.provider = <<>>}

\* The widget at page load: loaded or not, with the session of an earlier
\* visit or without.  `emitted` is the event whose listeners are about to run.
Widgets ==
  [available : BOOLEAN, current : {<<>>} \cup {<<u>> : u \in SignInUsers},
   open : {FALSE}, build : Builds, promises : {<<>>}, emitted : {<<>>}]

SignInRecord(op) == [op |-> op]

notSignInVars ==
  <<localStorage, storageFault, env, quotas, anonRun, apiCall, db, pending, inflight,
    tablesInit, requests>>

\* authService.signInWithSocial(provider) / authService.openLogin()
SignInWithSocial ==
  /\ identity.emitted = <<>>
  /\ Len(identity.promises) < MaxSignIns
  /\ identity' =
       IF ~identity.available
       THEN [identity EXCEPT !.promises = Append(@, RejectedAtOnce)]
       ELSE [identity EXCEPT !.promises = Append(@, PendingPromise), !.open = TRUE]
  /\ lastOp' = SignInRecord("signInWithSocial")
  /\ UNCHANGED notSignInVars

\* The visitor signs in through the open modal: the widget emits `login`
WidgetLogin(netlifyUser) ==
  /\ identity.emitted = <<>>
  /\ identity.open
  /\ identity.current = <<>>
  /\ identity' = [identity EXCEPT !.current = <<netlifyUser>>, !.emitted = <<"login">>]
  /\ lastOp' = SignInRecord("login")
  /\ UNCHANGED notSignInVars

\* The modal closes (the visitor dismisses it, or the widget closes it after
\* a login): the widget emits `close`
WidgetClose ==
  /\ identity.emitted = <<>>
  /\ identity.open
  /\ identity' = [identity EXCEPT
                    !.open = FALSE,
                    !.emitted = <<"close">>,
                    !.promises = [i \in DOMAIN @ |-> [@[i] EXCEPT !.closed = TRUE]]]
  /\ lastOp' = SignInRecord("close")
  /\ UNCHANGED notSignInVars

\* The listeners of the emitted event run
ListenersRun ==
  /\ identity.emitted # <<>>
  /\ identity' = [identity EXCEPT
                    !.emitted = <<>>,
                    !.promises = Emit(@, identity.emitted[1], identity.build,
                                      identity.current, identity.current)]
  /\ lastOp' = SignInRecord("listeners")
  /\ UNCHANGED notSignInVars

\* authService.logout(), or the visitor signs out in the modal
SignOut ==
  /\ identity.emitted = <<>>
  /\ identity.current # <<>>
  /\ identity' = [identity EXCEPT !.current = <<>>]
  /\ lastOp' = SignInRecord("logout")
  /\ UNCHANGED notSignInVars

InitSignIn ==
  /\ localStorage = [k \in {} |-> <<>>]
  /\ storageFault = "none"
  /\ env \in Environments
  /\ quotas = [k \in {} |-> NewRow(0, FALSE, "")]
  /\ anonRun = 0
  /\ apiCall = IdleCall
  /\ db = EmptyDb
  /\ pending = NoPending
  /\ identity \in Widgets
  /\ inflight = {}
  /\ tablesInit = ColdStart
  /\ requests = {}
  /\ lastOp = SignInRecord("init")

NextSignIn ==
  \/ SignInWithSocial
  \/ \E netlifyUser \in SignInUsers : WidgetLogin(netlifyUser)
  \/ WidgetClose
  \/ ListenersRun
  \/ SignOut

SpecSignIn == InitSignIn /\ [][NextSignIn]_vars

\* The listeners of an emitted event do run; what the visitor does next is
\* up to the visitor
SpecSignInFair == SpecSignIn /\ WF_vars(ListenersRun)

PromiseOf(i) == identity.promises[i]

\* resolve or reject was called at most once for every promise
SettledAtMostOnce ==
  \A i \in 1..Len(identity.promises) : PromiseOf(i).settleCalls <= 1

\* A settled promise has no listener registered, and it holds the mapped
\* profile of the signed-in user or one of the two errors
SettledClean ==
  \A i \in 1..Len(identity.promises) :
    /\ PromiseOf(i).state # "pending" => PromiseOf(i).listeners = {}
    /\ PromiseOf(i).state = "resolved"
         => \E u \in SignInUsers : PromiseOf(i).profile = <<ProfileOf(identity.build, u)>>
    /\ PromiseOf(i).state = "rejected" => PromiseOf(i).error \in {Cancelled, NotAvailable}

\* The modal was closed since call i opened it
ClosedSince(i) == IF i <= Len(identity.promises) THEN PromiseOf(i).closed ELSE FALSE

PromiseSettled(i) ==
  IF i <= Len(identity.promises) THEN PromiseOf(i).state # "pending" ELSE FALSE

\* C36: every promise of signInWithSocial / openLogin settles at most once
\* and, when it settles, its login and close listeners are removed; once the
\* modal it opened has been closed, the promise is eventually settled
C36_SignInPromiseSettles ==
  /\ [](SettledAtMostOnce /\ SettledClean)
  /\ \A i \in 1..MaxSignIns : ClosedSince(i) ~> PromiseSettled(i)


\* ------------------------------------------------------------------------
\* Backend seen from the network: anyone can post to the webhook endpoint
\* and to the API endpoint; the quota table is written by the webhook's
\* event switch (api.ts:646-722) and by the quota cases of the API handler
\* (api.ts:230-267).
\* ------------------------------------------------------------------------

MaxUsed == 2

\* Every deployment: database, Stripe secret key, webhook secret set or not
WebhookEnvironments ==
  [apiKey : {TRUE}, sql : BOOLEAN, stripe : BOOLEAN, webhookSecret : BOOLEAN]

\* The requests the webhook endpoint receives: any method, with or without
\* a stripe-signature header, which constructEvent accepts or not (it
\* accepts none when there is no header)
WebhookRequests ==
  {ev \in [httpMethod : {"POST", "GET"}, signed : BOOLEAN, valid : BOOLEAN,
           type : StripeEvents, userId : Users \cup {""},
           subscriptionId : SubscriptionIds \cup {""}, isActive : BOOLEAN] :
     ev.valid => ev.signed}

QuotaRequests ==
  [action : {"increment-quota"}, payload : [userId : Users \cup {""}]]
  \cup [action : {"sync-quota"}, payload : [userId : Users \cup {""}, localCount : 0..MaxUsed]]

BackendRecord(op, request, dbFail, statusCode) ==
  [op |-> op, request |-> request, dbFail |-> dbFail, statusCode |-> statusCode,
   before |-> quotas]

notBackendVars ==
  <<localStorage, storageFault, env, anonRun, apiCall, db, pending, processVars>>

\* The webhook endpoint handles a request
WebhookRequest(ev) ==
  /\ \E dbFail \in BOOLEAN :
       \E reply \in {webhookHandler(ev, env, quotas, dbFail)} :
         /\ quotas' = reply.quotas
         /\ lastOp' = BackendRecord("webhook", ev, dbFail, reply.statusCode)
  /\ UNCHANGED notBackendVars

\* The API endpoint handles an increment-quota or sync-quota request
QuotaRequest(request) ==
  /\ (request.action = "increment-quota" /\ request.payload.userId # "")
       => RemoteCount(quotas, request.payload.userId) < MaxUsed
  /\ \E dbFail \in BOOLEAN :
       \E reply \in {handler(request.action, request.payload, env, quotas, dbFail)} :
         /\ quotas' = reply.quotas
         /\ lastOp' = BackendRecord(request.action, request, dbFail, reply.statusCode)
  /\ UNCHANGED notBackendVars

InitWebhook ==
  /\ localStorage = [k \in {} |-> <<>>]
  /\ storageFault = "none"
  /\ env \in WebhookEnvironments
  /\ quotas = [k \in {} |-> NewRow(0, FALSE, "")]
  /\ lastOp = [op |-> "init", request |-> <<>>, dbFail |-> FALSE, statusCode |-> 0,
               before |-> quotas]
  /\ anonRun = 0
  /\ apiCall = IdleCall
  /\ db = EmptyDb
  /\ pending = NoPending
  /\ ProcessInit

NextWebhook ==
  \/ \E ev \in WebhookRequests : WebhookRequest(ev)
  \/ \E request \in QuotaRequests : QuotaRequest(request)

SpecWebhook == InitWebhook /\ [][NextWebhook]_vars

\* The request is a POST that carries a signature constructEvent accepted,
\* in a deployment with the Stripe key and the webhook secret
VerifiedPost ==
  /\ lastOp.request.httpMethod = "POST"
  /\ lastOp.request.signed
  /\ lastOp.request.valid
  /\ env.stripe
  /\ env.webhookSecret

\* C37: a webhook request that is not a POST with a verified signature, or
\* that arrives while Stripe or the webhook secret is not configured, leaves
\* the quota table as it was
C37_WebhookWritesOnlyWhenVerified ==
  (lastOp.op = "webhook" /\ quotas # lastOp.before) => VerifiedPost

\* A POST whose signature constructEvent rejected asked to activate premium
\* for a user with a free record, everything being configured: refused with
\* 400, the record is as before
C37_Witness ==
  /\ lastOp.op = "webhook"
  /\ lastOp.request.httpMethod = "POST"
  /\ lastOp.request.signed
  /\ ~lastOp.request.valid
  /\ lastOp.request.type = "checkout.session.completed"
  /\ lastOp.request.userId = "user-a"
  /\ lastOp.request.subscriptionId = "sub-1"
  /\ env.sql /\ env.stripe /\ env.webhookSecret
  /\ HasRow(quotas, "user-a")
  /\ ~quotas["user-a"].is_premium
  /\ lastOp.statusCode = 400
  /\ quotas = lastOp.before

\* C38: a webhook event leaves used_generations of every existing record
\* unchanged; increment-quota and sync-quota leave is_premium (and the
\* subscription id) of every existing record unchanged and create only free
\* records
C38_PremiumAndUsageAreIndependent ==
  /\ lastOp.op = "webhook"
       => \A u \in DOMAIN lastOp.before :
            /\ HasRow(quotas, u)
            /\ quotas[u].used_generations = lastOp.before[u].used_generations
  /\ lastOp.op \in {"increment-quota", "sync-quota"}
       => \A u \in DOMAIN quotas :
            IF HasRow(lastOp.before, u)
            THEN /\ quotas[u].is_premium = lastOp.before[u].is_premium
                 /\ quotas[u].stripe_subscription_id = lastOp.before[u].stripe_subscription_id
            ELSE ~quotas[u].is_premium

\* checkout.session.completed made a record with two used generations
\* premium, and the count is still two
C38_Witness ==
  /\ lastOp.op = "webhook"
  /\ lastOp.request.type = "checkout.session.completed"
  /\ HasRow(lastOp.before, "user-a")
  /\ ~lastOp.before["user-a"].is_premium
  /\ lastOp.before["user-a"].used_generations = 2
  /\ quotas["user-a"].is_premium
  /\ quotas["user-a"].used_generations = 2

====
